---- MODULE Spec2Model ----
(***************************************************************************)
(* The Recoder (src/src/etl.py, run_etl) of the social-media / mental-      *)
(* health survey dashboard, as a state machine: one action per pipeline     *)
(* function, a working table df, the raw input file and the three output   *)
(* files.                                                                   *)
(*                                                                          *)
(* Representation.  A Python str is a TLA+ string.  A missing cell (NaN /   *)
(* None / <NA>) is the string NaN: read_csv turns the text "NaN" into a     *)
(* missing value, so no present cell ever holds it.  A numeric value is a   *)
(* record [kind, v]: kind "num" with v the value in tenths, kind "inf" with *)
(* v the sign, kind "nan".  A table is [columns, dtypes, rows]: the ordered  *)
(* column names, the kind of value each column holds, and, per row, a       *)
(* function from column name to value.  A "text" column holds cells as      *)
(* str(val) shows them.                                                     *)
(***************************************************************************)
EXTENDS Integers, Sequences, FiniteSets, TLC

VARIABLES
    rawFile,   \* the raw survey export at raw_path, or Absent
    df,        \* the working table of the run in progress
    pc,        \* the function run_etl calls next, or "idle" / "done" / "failed"
    error,     \* the exception that ended the run, or NoError
    log,       \* the lines the run has printed so far
    checks,    \* checks_before and checks_after of the run
    files,     \* the three output files
    sample,    \* one value and the results of the per-value functions on it
    eda        \* the run of run_eda.py on the cleaned table: position, table,
               \* results, exception and the files it has written

vars == <<pc, log, error, checks, files, rawFile, df, sample, eda>>

etlVars == <<rawFile, df, pc, error, log, checks, files>>

(***************************************************************************)
(* Bounds of the model.                                                     *)
(***************************************************************************)
MaxRows == 2
MaxAge == 50

(***************************************************************************)
(* Configuration tables.                                                    *)
(***************************************************************************)
NaN == "NaN"
Absent == [exists |-> FALSE]

COLUMN_MAPPING ==
    << <<"Timestamp", "timestamp">>,
       <<"1. What is your age?", "age">>,
       <<"2. Gender", "gender_raw">>,
       <<"3. Relationship Status", "relationship_status">>,
       <<"4. Occupation Status", "occupation_status">>,
       <<"5. What type of organizations are you affiliated with?", "org_affiliations_raw">>,
       <<"6. Do you use social media?", "uses_social_media">>,
       <<"7. What social media platforms do you commonly use?", "platforms_raw">>,
       <<"8. What is the average time you spend on social media every day?", "daily_time_band">>,
       <<"9. How often do you find yourself using Social media without a specific purpose?", "purposeless_use">>,
       <<"10. How often do you get distracted by Social media when you are busy doing something?", "distracted_when_busy">>,
       <<"11. Do you feel restless if you haven't used Social media in a while?", "restless_without_sm">>,
       <<"12. On a scale of 1 to 5, how easily distracted are you?", "easily_distracted">>,
       <<"13. On a scale of 1 to 5, how much are you bothered by worries?", "worries_bother">>,
       <<"14. Do you find it difficult to concentrate on things?", "difficulty_concentrating">>,
       <<"15. On a scale of 1-5, how often do you compare yourself to other successful people through the use of social media?", "compare_to_successful">>,
       <<"16. Following the previous question, how do you feel about these comparisons, generally speaking?", "comparison_feelings">>,
       <<"17. How often do you look to seek validation from features of social media?", "seek_validation">>,
       <<"18. How often do you feel depressed or down?", "low_mood_freq">>,
       <<"19. On a scale of 1 to 5, how frequently does your interest in daily activities fluctuate?", "interest_fluctuation">>,
       <<"20. On a scale of 1 to 5, how often do you face issues regarding sleep?", "sleep_issues">> >>

LIKERT_COLUMNS ==
    << "purposeless_use", "distracted_when_busy", "restless_without_sm",
       "easily_distracted", "worries_bother", "difficulty_concentrating",
       "compare_to_successful", "comparison_feelings", "seek_validation",
       "low_mood_freq", "interest_fluctuation", "sleep_issues" >>

PLATFORMS ==
    << "Facebook", "Twitter", "Instagram", "YouTube", "Snapchat",
       "Discord", "Reddit", "Pinterest", "TikTok" >>

AFFILIATIONS ==
    << <<"university", <<"University">> >>,
       <<"school", <<"School">> >>,
       <<"company", <<"Company">> >>,
       <<"private", <<"Private">> >>,
       <<"government", <<"Government", "Goverment">> >>,
       <<"na", <<"N/A", "NA", "">> >> >>

\* value in tenths of an hour
TIME_BAND_MIDPOINTS ==
    ("Less than an Hour" :> 5) @@
    ("Between 1 and 2 hours" :> 15) @@
    ("Between 2 and 3 hours" :> 25) @@
    ("Between 3 and 4 hours" :> 35) @@
    ("Between 4 and 5 hours" :> 45) @@
    ("More than 5 hours" :> 55)

GENDER_NORMALISATION ==
    ("male" :> "Male") @@ ("m" :> "Male") @@ ("man" :> "Male") @@
    ("female" :> "Female") @@ ("f" :> "Female") @@ ("woman" :> "Female") @@
    ("nonbinary" :> "Non-binary") @@ ("non-binary" :> "Non-binary") @@
    ("non binary" :> "Non-binary") @@ ("nb" :> "Non-binary") @@
    ("enby" :> "Non-binary") @@ ("genderqueer" :> "Non-binary") @@
    ("genderfluid" :> "Non-binary") @@ ("agender" :> "Non-binary") @@
    ("trans" :> "Trans") @@ ("transgender" :> "Trans") @@
    ("trans male" :> "Trans") @@ ("trans female" :> "Trans") @@
    ("trans man" :> "Trans") @@ ("trans woman" :> "Trans") @@
    ("unsure" :> "Unsure") @@ ("questioning" :> "Unsure") @@
    ("unknown" :> "Unsure") @@
    ("prefer not to say" :> "Prefer not to say") @@
    ("rather not say" :> "Prefer not to say") @@
    ("decline" :> "Prefer not to say")

GENDER_GROUPING ==
    ("Male" :> "Male") @@ ("Female" :> "Female") @@
    ("Non-binary" :> "Non-binary & Other") @@
    ("Trans" :> "Non-binary & Other") @@
    ("Unsure" :> "Non-binary & Other") @@
    ("Other" :> "Non-binary & Other") @@
    ("Prefer not to say" :> "Prefer not to say")

(***************************************************************************)
(* Python / pandas primitives.                                              *)
(***************************************************************************)
Range(s) == {s[i] : i \in DOMAIN s}

CharAt(s, i) == SubSeq(s, i, i)

UpperAlphabet == "ABCDEFGHIJKLMNOPQRSTUVWXYZ"
LowerAlphabet == "abcdefghijklmnopqrstuvwxyz"

UpperChars == {CharAt(UpperAlphabet, i) : i \in 1..Len(UpperAlphabet)}
LowerOf == [c \in UpperChars |->
              CharAt(LowerAlphabet, CHOOSE i \in 1..Len(UpperAlphabet) : CharAt(UpperAlphabet, i) = c)]

\* str.lower() on one character
LowerChar(c) == IF c \in UpperChars THEN LowerOf[c] ELSE c

\* str.lower(), character by character (the string split in halves)
RECURSIVE PyLower(_)
PyLower(s) ==
    IF Len(s) = 0 THEN ""
    ELSE IF Len(s) = 1 THEN LowerChar(s)
    ELSE PyLower(SubSeq(s, 1, Len(s) \div 2)) \o PyLower(SubSeq(s, Len(s) \div 2 + 1, Len(s)))

IsSpace(c) == c \in {" ", "\t", "\n", "\r"}

RECURSIVE LStrip(_)
LStrip(s) ==
    IF Len(s) > 0 /\ IsSpace(CharAt(s, 1)) THEN LStrip(SubSeq(s, 2, Len(s))) ELSE s

RECURSIVE RStrip(_)
RStrip(s) ==
    IF Len(s) > 0 /\ IsSpace(CharAt(s, Len(s)))
    THEN RStrip(SubSeq(s, 1, Len(s) - 1)) ELSE s

\* str.strip()
PyStrip(s) == RStrip(LStrip(s))

\* the Python test `needle in hay` on two str
PyContains(needle, hay) ==
    \E i \in 1..(Len(hay) - Len(needle) + 1) :
        SubSeq(hay, i, i + Len(needle) - 1) = needle

\* pd.isna
IsNa(val) == val = NaN

(***************************************************************************)
(* Numbers.  [kind |-> "num", v] is a float with v its value in tenths (the *)
(* inputs of the model carry at most one decimal digit); [kind |-> "int",   *)
(* v] is an Int64 with value v; [kind |-> "inf", v] is +/- infinity with v  *)
(* its sign; [kind |-> "nan"] is NaN / <NA>.                                *)
(***************************************************************************)
Num(t) == [kind |-> "num", v |-> t]
Int64(n) == [kind |-> "int", v |-> n]
Inf(sign) == [kind |-> "inf", v |-> sign]
NumNaN == [kind |-> "nan", v |-> 0]

Digits == "0123456789"
IsDigit(c) == \E i \in 1..10 : CharAt(Digits, i) = c
DigitVal(c) == (CHOOSE i \in 1..10 : CharAt(Digits, i) = c) - 1

AllDigits(s) == Len(s) > 0 /\ \A i \in 1..Len(s) : IsDigit(CharAt(s, i))

RECURSIVE DigitsVal(_)
DigitsVal(s) ==
    IF Len(s) = 0 THEN 0
    ELSE 10 * DigitsVal(SubSeq(s, 1, Len(s) - 1)) + DigitVal(CharAt(s, Len(s)))

RECURSIVE NatToStr(_)
NatToStr(n) ==
    IF n < 10 THEN CharAt(Digits, n + 1)
    ELSE NatToStr(n \div 10) \o CharAt(Digits, (n % 10) + 1)

Abs(n) == IF n < 0 THEN -n ELSE n

\* the unsigned decimal literals d+ and d+.d, in tenths; -1 when s is neither
UnsignedTenths(s) ==
    IF AllDigits(s) THEN 10 * DigitsVal(s)
    ELSE IF /\ Len(s) >= 3
            /\ CharAt(s, Len(s) - 1) = "."
            /\ IsDigit(CharAt(s, Len(s)))
            /\ AllDigits(SubSeq(s, 1, Len(s) - 2))
         THEN 10 * DigitsVal(SubSeq(s, 1, Len(s) - 2)) + DigitVal(CharAt(s, Len(s)))
         ELSE -1

\* pd.to_numeric(..., errors="coerce") on one cell
ToNumeric(val) ==
    IF IsNa(val) THEN NumNaN
    ELSE IF val = "inf" THEN Inf(1)
    ELSE IF val = "-inf" THEN Inf(-1)
    ELSE IF Len(val) > 1 /\ CharAt(val, 1) = "-"
         THEN IF UnsignedTenths(SubSeq(val, 2, Len(val))) >= 0
              THEN Num(0 - UnsignedTenths(SubSeq(val, 2, Len(val))))
              ELSE NumNaN
    ELSE IF UnsignedTenths(val) >= 0 THEN Num(UnsignedTenths(val))
    ELSE NumNaN

IsNumNa(x) == x.kind = "nan"

\* str() of a Python int and of a Python float
IntRepr(t) == (IF t < 0 THEN "-" ELSE "") \o NatToStr(Abs(t) \div 10)
FloatRepr(t) ==
    (IF t < 0 THEN "-" ELSE "") \o NatToStr(Abs(t) \div 10) \o "." \o
    NatToStr(Abs(t) % 10)

\* int(x) of a finite float: truncation toward zero
PyInt(t) == IF t >= 0 THEN t \div 10 ELSE 0 - ((0 - t) \div 10)

\* floor(t / 10) for any sign
FloorTenths(t) == t \div 10

\* numpy round(): to the nearest integer, a tie to the even one
NpRound(t) ==
    LET lo == FloorTenths(t)
        rem == t - 10 * lo
    IN  IF rem < 5 THEN lo
        ELSE IF rem > 5 THEN lo + 1
        ELSE IF lo % 2 = 0 THEN lo ELSE lo + 1

\* a < b on floats, as Python compares them (NaN compares false)
NumLess(a, b) ==
    /\ a.kind # "nan" /\ b.kind # "nan"
    /\ \/ a.kind = "inf" /\ a.v < 0 /\ ~(b.kind = "inf" /\ b.v < 0)
       \/ b.kind = "inf" /\ b.v > 0 /\ ~(a.kind = "inf" /\ a.v > 0)
       \/ a.kind = "num" /\ b.kind = "num" /\ a.v < b.v

\* Series.min() / Series.max(): missing values skipped, NaN when none is present
SeriesMin(xs) ==
    LET present == {i \in DOMAIN xs : ~IsNumNa(xs[i])}
    IN  IF present = {} THEN NumNaN
        ELSE xs[CHOOSE i \in present : \A j \in present : ~NumLess(xs[j], xs[i])]

SeriesMax(xs) ==
    LET present == {i \in DOMAIN xs : ~IsNumNa(xs[i])}
    IN  IF present = {} THEN NumNaN
        ELSE xs[CHOOSE i \in present : \A j \in present : ~NumLess(xs[i], xs[j])]

(***************************************************************************)
(* pd.read_csv with its defaults: the texts of na_values read as missing,   *)
(* and a column whose present cells are all numeric gets a numeric dtype    *)
(* (int64 when nothing is missing and every value is whole, else float64),  *)
(* which decides what str(val) gives later.                                 *)
(***************************************************************************)
NA_VALUES ==
    { "", "#N/A", "#N/A N/A", "#NA", "-1.#IND", "-1.#QNAN", "-NaN", "-nan",
      "1.#IND", "1.#QNAN", "<NA>", "N/A", "NA", "NULL", "NaN", "None", "n/a",
      "nan", "null" }

ReadCell(text) == IF text \in NA_VALUES THEN NaN ELSE text

ColumnDtype(cells) ==
    LET present == {i \in DOMAIN cells : ~IsNa(cells[i])}
    IN  IF \E i \in present : IsNumNa(ToNumeric(cells[i])) THEN "object"
        ELSE IF /\ present = DOMAIN cells
                /\ \A i \in present : /\ ToNumeric(cells[i]).kind = "num"
                                      /\ ToNumeric(cells[i]).v % 10 = 0
             THEN "int64"
             ELSE "float64"

\* the cell as str(val) will show it
TypedCell(cell, dtype) ==
    IF IsNa(cell) \/ dtype = "object" \/ ToNumeric(cell).kind = "inf" THEN cell
    ELSE IF dtype = "int64" THEN IntRepr(ToNumeric(cell).v)
    ELSE FloatRepr(ToNumeric(cell).v)

ReadCsv(file) ==
    LET cells == [c \in Range(file.columns) |->
                     [i \in DOMAIN file.rows |-> ReadCell(file.rows[i][c])]]
        dtype == [c \in Range(file.columns) |-> ColumnDtype(cells[c])]
    IN  [columns |-> file.columns,
         dtypes |-> [c \in Range(file.columns) |-> "text"],
         rows |-> [i \in DOMAIN file.rows |->
                      [c \in Range(file.columns) |-> TypedCell(cells[c][i], dtype[c])]]]

(***************************************************************************)
(* DataFrame primitives.                                                    *)
(***************************************************************************)
Column(t, c) == [i \in DOMAIN t.rows |-> t.rows[i][c]]

RECURSIVE SeqFilter(_, _)
SeqFilter(s, keep) ==
    IF s = << >> THEN << >>
    ELSE (IF Head(s) \in keep THEN <<Head(s)>> ELSE << >>) \o SeqFilter(Tail(s), keep)

\* df[c] = vals[c] for each c of the sequence cs in turn: a column that exists
\* is replaced in place, a new one is appended as the last column
SetColumns(t, cs, dtype, vals) ==
    LET old == Range(t.columns)
        cols == t.columns \o SeqFilter(cs, Range(cs) \ old)
    IN  [columns |-> cols,
         dtypes |-> [x \in Range(cols) |-> IF x \in Range(cs) THEN dtype ELSE t.dtypes[x]],
         rows |-> [i \in DOMAIN t.rows |->
                     [x \in Range(cols) |->
                         IF x \in Range(cs) THEN vals[x][i] ELSE t.rows[i][x]]]]

\* df[c] = vals
SetColumn(t, c, dtype, vals) == SetColumns(t, <<c>>, dtype, (c :> vals))

\* df[cols]: the columns named by the sequence cols, in that order
SelectColumns(t, cols) ==
    [columns |-> cols,
     dtypes |-> [x \in Range(cols) |-> t.dtypes[x]],
     rows |-> [i \in DOMAIN t.rows |-> [x \in Range(cols) |-> t.rows[i][x]]]]

\* df.drop(columns=[c])
DropColumn(t, c) ==
    SelectColumns(t, SeqFilter(t.columns, Range(t.columns) \ {c}))

RECURSIVE SeqSum(_)
SeqSum(s) == IF s = << >> THEN 0 ELSE Head(s) + SeqSum(Tail(s))

NoTable == [columns |-> << >>, dtypes |-> << >>, rows |-> << >>]

NoError == [kind |-> "none", what |-> "", col |-> ""]
Raise(kind, what, col) == [kind |-> kind, what |-> what, col |-> col]

(***************************************************************************)
(* rename_columns                                                           *)
(***************************************************************************)
ExpectedRaw == {COLUMN_MAPPING[i][1] : i \in DOMAIN COLUMN_MAPPING}

RenameMap ==
    [h \in ExpectedRaw |->
        COLUMN_MAPPING[CHOOSE i \in DOMAIN COLUMN_MAPPING : COLUMN_MAPPING[i][1] = h][2]]

\* the name df.rename(columns=COLUMN_MAPPING) gives column c
RenameOf(c) == IF c \in ExpectedRaw THEN RenameMap[c] ELSE c

\* (mutant) the header set must equal the expected one: extra columns are refused too
missing_cols_strict(t) ==
    (ExpectedRaw \ Range(t.columns)) \cup (Range(t.columns) \ ExpectedRaw)

missing_cols(t) == ExpectedRaw \ Range(t.columns)

rename_columns(t) ==
    LET cols == [i \in DOMAIN t.columns |-> RenameOf(t.columns[i])]
        orig == [n \in Range(cols) |-> CHOOSE c \in Range(t.columns) : RenameOf(c) = n]
    IN  [columns |-> cols,
         dtypes |-> [n \in Range(cols) |-> t.dtypes[orig[n]]],
         rows |-> [i \in DOMAIN t.rows |-> [n \in Range(cols) |-> t.rows[i][orig[n]]]]]

(***************************************************************************)
(* drop_timestamp                                                           *)
(***************************************************************************)
drop_timestamp(t) ==
    IF "timestamp" \in Range(t.columns) THEN DropColumn(t, "timestamp") ELSE t

(***************************************************************************)
(* clean_age                                                                *)
(***************************************************************************)
\* (mutant) the first cutoff off by one: 18 falls in "<18"
get_age_band_off_by_one(age) ==
    IF IsNumNa(age) THEN "Unknown"
    ELSE LET a == PyInt(age.v)
         IN  IF a <= 18 THEN "<18"
             ELSE IF a <= 24 THEN "18-24"
             ELSE IF a <= 34 THEN "25-34"
             ELSE IF a <= 44 THEN "35-44"
             ELSE "45+"

\* age is a float that is not infinite (int(inf) raises OverflowError)
get_age_band(age) ==
    IF IsNumNa(age) THEN "Unknown"
    ELSE LET a == PyInt(age.v)
         IN  IF a < 18 THEN "<18"
             ELSE IF a <= 24 THEN "18-24"
             ELSE IF a <= 34 THEN "25-34"
             ELSE IF a <= 44 THEN "35-44"
             ELSE "45+"

\* (mutant) a missing age filled with 0 before the conversion
AgeToInt64_fillna(age) == IF IsNumNa(age) THEN Int64(0) ELSE Int64(NpRound(age.v))

\* pd.array(df["age"].round().values, dtype="Int64") on one value
AgeToInt64(age) == IF IsNumNa(age) THEN NumNaN ELSE Int64(NpRound(age.v))

clean_age_fails(t) ==
    \E i \in DOMAIN t.rows : ToNumeric(t.rows[i]["age"]).kind = "inf"

clean_age(t) ==
    LET num == [i \in DOMAIN t.rows |-> ToNumeric(t.rows[i]["age"])]
        banded == SetColumn(t, "age_band", "text",
                            [i \in DOMAIN t.rows |-> get_age_band(num[i])])
    IN  SetColumn(banded, "age", "Int64",
                  [i \in DOMAIN t.rows |-> AgeToInt64(num[i])])

(***************************************************************************)
(* clean_gender                                                             *)
(***************************************************************************)
\* (mutant) the value is lower-cased but not stripped
normalise_gender_no_strip(val) ==
    IF IsNa(val) THEN "Prefer not to say"
    ELSE LET val_clean == PyLower(val)
         IN  IF val_clean \in DOMAIN GENDER_NORMALISATION
             THEN GENDER_NORMALISATION[val_clean]
             ELSE "Other"

normalise_gender(val) ==
    IF IsNa(val) THEN "Prefer not to say"
    ELSE LET val_clean == PyLower(PyStrip(val))
         IN  IF val_clean \in DOMAIN GENDER_NORMALISATION
             THEN GENDER_NORMALISATION[val_clean]
             ELSE "Other"

\* (mutant) a grouping dict without the "Other" key
group_gender_without_other(clean) ==
    IF clean \in DOMAIN GENDER_GROUPING \ {"Other"} THEN GENDER_GROUPING[clean] ELSE NaN

\* Series.map(GENDER_GROUPING) on one value: a key the dict lacks gives NaN
group_gender(clean) ==
    IF clean \in DOMAIN GENDER_GROUPING THEN GENDER_GROUPING[clean] ELSE NaN

\* (mutant) the raw column is not dropped
clean_gender_keeps_raw(t) ==
    LET clean == [i \in DOMAIN t.rows |-> normalise_gender(t.rows[i]["gender_raw"])]
        t1 == SetColumn(t, "gender_clean", "text", clean)
    IN  SetColumn(t1, "gender_grouped", "text",
                  [i \in DOMAIN t.rows |-> group_gender(clean[i])])

clean_gender(t) ==
    LET clean == [i \in DOMAIN t.rows |-> normalise_gender(t.rows[i]["gender_raw"])]
        t1 == SetColumn(t, "gender_clean", "text", clean)
        t2 == SetColumn(t1, "gender_grouped", "text",
                        [i \in DOMAIN t.rows |-> group_gender(clean[i])])
    IN  DropColumn(t2, "gender_raw")

(***************************************************************************)
(* clean_yes_no                                                             *)
(***************************************************************************)
PyTrue == "True"
PyFalse == "False"
PyNone == "None"

to_bool(val) ==
    IF IsNa(val) THEN PyNone
    ELSE LET val_str == PyLower(PyStrip(val))
         IN  IF val_str \in {"yes", "y", "true", "1"} THEN PyTrue
             ELSE IF val_str \in {"no", "n", "false", "0"} THEN PyFalse
             ELSE PyNone

clean_yes_no(t) ==
    SetColumn(t, "uses_social_media", "pybool",
              [i \in DOMAIN t.rows |-> to_bool(t.rows[i]["uses_social_media"])])

(***************************************************************************)
(* parse_platforms                                                          *)
(***************************************************************************)
platform_col(p) == "platform_" \o PyLower(p)

platform_cols == [k \in DOMAIN PLATFORMS |-> platform_col(PLATFORMS[k])]

\* (mutant) the platform name is looked up as spelled, without lower()
has_platform_case_sensitive(val, p) ==
    IF IsNa(val) THEN 0
    ELSE IF PyContains(p, val) THEN 1 ELSE 0

has_platform(val, p) ==
    IF IsNa(val) THEN 0
    ELSE IF PyContains(PyLower(p), PyLower(val)) THEN 1 ELSE 0

\* the for loop over PLATFORMS: one flag column per platform
platform_flags(t) ==
    SetColumns(t, platform_cols, "int64",
               [c \in Range(platform_cols) |->
                   LET p == PLATFORMS[CHOOSE k \in DOMAIN PLATFORMS : platform_cols[k] = c]
                   IN  [i \in DOMAIN t.rows |-> has_platform(t.rows[i]["platforms_raw"], p)]])

\* (mutant) the sum misses the last platform column
platform_count_short(row) ==
    SeqSum([k \in 1..(Len(platform_cols) - 1) |-> row[platform_cols[k]]])

\* df[platform_cols].sum(axis=1) on one row
platform_count(row) == SeqSum([k \in DOMAIN platform_cols |-> row[platform_cols[k]]])

parse_platforms(t) ==
    LET flagged == platform_flags(t)
    IN  SetColumn(flagged, "platform_count", "int64",
                  [i \in DOMAIN flagged.rows |-> platform_count(flagged.rows[i])])

(***************************************************************************)
(* parse_affiliations                                                       *)
(***************************************************************************)
affil_col(key) == "affil_" \o key

\* (mutant) a missing value matches no bucket
has_affiliation_missing_zero(val, values) ==
    IF IsNa(val) THEN 0
    ELSE LET val_str == PyStrip(val)
         IN  IF \E k \in DOMAIN values : PyContains(PyLower(values[k]), PyLower(val_str))
             THEN 1 ELSE 0

has_affiliation(val, values) ==
    IF IsNa(val) THEN (IF "" \in Range(values) THEN 1 ELSE 0)
    ELSE LET val_str == PyStrip(val)
         IN  IF \E k \in DOMAIN values : PyContains(PyLower(values[k]), PyLower(val_str))
             THEN 1 ELSE 0

affil_cols == [k \in DOMAIN AFFILIATIONS |-> affil_col(AFFILIATIONS[k][1])]

\* the for loop over AFFILIATIONS: one flag column per bucket
parse_affiliations(t) ==
    SetColumns(t, affil_cols, "int64",
               [c \in Range(affil_cols) |->
                   LET values == AFFILIATIONS[CHOOSE k \in DOMAIN AFFILIATIONS :
                                                  affil_cols[k] = c][2]
                   IN  [i \in DOMAIN t.rows |->
                           has_affiliation(t.rows[i]["org_affiliations_raw"], values)]])

(***************************************************************************)
(* create_time_midpoint                                                     *)
(***************************************************************************)
\* Series.map(TIME_BAND_MIDPOINTS) on one value
\* (mutant) a label without midpoint gets 0 hours
time_midpoint_fill_zero(band) ==
    IF band \in DOMAIN TIME_BAND_MIDPOINTS THEN Num(TIME_BAND_MIDPOINTS[band])
    ELSE Num(0)

time_midpoint(band) ==
    IF band \in DOMAIN TIME_BAND_MIDPOINTS THEN Num(TIME_BAND_MIDPOINTS[band])
    ELSE NumNaN

create_time_midpoint(t) ==
    SetColumn(t, "daily_hours_midpoint", "float64",
              [i \in DOMAIN t.rows |-> time_midpoint(t.rows[i]["daily_time_band"])])

\* the labels that are present and got no midpoint
unmapped(t) ==
    {t.rows[i]["daily_time_band"] : i \in
        {j \in DOMAIN t.rows : /\ IsNumNa(t.rows[j]["daily_hours_midpoint"])
                               /\ ~IsNa(t.rows[j]["daily_time_band"])}}

(***************************************************************************)
(* validate_likert_scales                                                   *)
(***************************************************************************)
\* (mutant) the upper bound of the range is not checked
likert_column_error_no_upper(t, col) ==
    LET nums == [i \in DOMAIN t.rows |-> ToNumeric(t.rows[i][col])]
        min_val == SeriesMin(nums)
    IN  IF col \notin Range(t.columns)
        THEN Raise("ValueError", "Missing Likert column", col)
        ELSE IF ~IsNumNa(min_val) /\ NumLess(min_val, Num(10))
        THEN Raise("ValueError", "has value below 1", col)
        ELSE IF \E i \in DOMAIN nums : nums[i].kind = "num" /\ nums[i].v % 10 # 0
        THEN Raise("TypeError", "cannot safely cast non-equivalent float64 to int64", col)
        ELSE NoError

\* the outcome of the loop body for one column: the error it raises, if any
likert_column_error(t, col) ==
    LET nums == [i \in DOMAIN t.rows |-> ToNumeric(t.rows[i][col])]
        min_val == SeriesMin(nums)
        max_val == SeriesMax(nums)
    IN  IF col \notin Range(t.columns)
        THEN Raise("ValueError", "Missing Likert column", col)
        ELSE IF ~IsNumNa(min_val) /\ NumLess(min_val, Num(10))
        THEN Raise("ValueError", "has value below 1", col)
        ELSE IF ~IsNumNa(max_val) /\ NumLess(Num(50), max_val)
        THEN Raise("ValueError", "has value above 5", col)
        \* astype("Int64") refuses a float that is not whole
        ELSE IF \E i \in DOMAIN nums : nums[i].kind = "num" /\ nums[i].v % 10 # 0
        THEN Raise("TypeError", "cannot safely cast non-equivalent float64 to int64", col)
        ELSE NoError

\* astype("Int64") on one value of a column that passed the checks
likert_to_int64(val) ==
    LET x == ToNumeric(val)
    IN  IF IsNumNa(x) THEN NumNaN ELSE Int64(x.v \div 10)

\* (mutant) the loop collects the failures and reports the last one
first_failing_last(t) ==
    LET bad == {k \in DOMAIN LIKERT_COLUMNS :
                   likert_column_error(t, LIKERT_COLUMNS[k]).kind # "none"}
    IN  IF bad = {} THEN 0 ELSE CHOOSE k \in bad : \A j \in bad : k >= j

\* The for loop over LIKERT_COLUMNS.  An iteration reads and writes its own
\* column only, so the loop ends at the first column, in LIKERT_COLUMNS order,
\* whose iteration raises: its index, or 0 when every column passes.
first_failing(t) ==
    LET bad == {k \in DOMAIN LIKERT_COLUMNS :
                   likert_column_error(t, LIKERT_COLUMNS[k]).kind # "none"}
    IN  IF bad = {} THEN 0 ELSE CHOOSE k \in bad : \A j \in bad : k <= j

\* [err, df, validated]: the exception raised if any, the table returned if
\* none, and the columns whose range line was printed
validate_likert_scales(t) ==
    IF first_failing(t) = 0
    THEN [err |-> NoError,
          df |-> SetColumns(t, LIKERT_COLUMNS, "Int64",
                            [c \in Range(LIKERT_COLUMNS) |->
                                [i \in DOMAIN t.rows |-> likert_to_int64(t.rows[i][c])]]),
          validated |-> LIKERT_COLUMNS]
    ELSE [err |-> likert_column_error(t, LIKERT_COLUMNS[first_failing(t)]),
          df |-> NoTable,
          validated |-> SubSeq(LIKERT_COLUMNS, 1, first_failing(t) - 1)]

(***************************************************************************)
(* create_analysis_flag                                                     *)
(***************************************************************************)
\* (mutant) every respondent who did not answer "no" is included
create_analysis_flag_not_false(t) ==
    SetColumn(t, "include_in_analysis", "bool",
              [i \in DOMAIN t.rows |-> t.rows[i]["uses_social_media"] # PyFalse])

\* (mutant) the rows that are not flagged are filtered out
create_analysis_flag_drops_excluded(t) ==
    LET kept == {i \in DOMAIN t.rows : t.rows[i]["uses_social_media"] = PyTrue}
        nth(k) == CHOOSE i \in kept : Cardinality({j \in kept : j <= i}) = k
        flagged == SetColumn(t, "include_in_analysis", "bool",
                             [i \in DOMAIN t.rows |-> TRUE])
    IN  [flagged EXCEPT !.rows = [k \in 1..Cardinality(kept) |-> flagged.rows[nth(k)]]]

create_analysis_flag(t) ==
    SetColumn(t, "include_in_analysis", "bool",
              [i \in DOMAIN t.rows |-> t.rows[i]["uses_social_media"] = PyTrue])

(***************************************************************************)
(* reorder_columns                                                          *)
(***************************************************************************)
ordered_cols ==
    << "age", "age_band", "gender_clean", "gender_grouped" >> \o
    << "relationship_status", "occupation_status" >> \o
    << "uses_social_media", "daily_time_band", "daily_hours_midpoint" >> \o
    platform_cols \o << "platform_count" >> \o
    affil_cols \o
    << "purposeless_use", "distracted_when_busy", "restless_without_sm",
       "easily_distracted", "worries_bother", "difficulty_concentrating" >> \o
    << "compare_to_successful", "comparison_feelings", "seek_validation",
       "low_mood_freq", "interest_fluctuation", "sleep_issues" >> \o
    << "platforms_raw", "org_affiliations_raw" >> \o
    << "include_in_analysis" >>

\* (mutant) the columns outside the fixed list are not added back
reorder_columns_drops_remaining(t) ==
    SelectColumns(t, SeqFilter(ordered_cols, Range(t.columns)))

reorder_columns(t) ==
    LET final_cols == SeqFilter(ordered_cols, Range(t.columns))
        remaining == SeqFilter(t.columns, Range(t.columns) \ Range(final_cols))
    IN  SelectColumns(t, final_cols \o remaining)

(***************************************************************************)
(* run_quality_checks                                                       *)
(***************************************************************************)
\* df.duplicated().sum(): the rows equal to an earlier row
duplicate_rows(t) ==
    Cardinality({i \in DOMAIN t.rows : \E j \in 1..(i - 1) : t.rows[j] = t.rows[i]})

IsMissing(v, dtype) ==
    IF dtype = "text" THEN v = NaN
    ELSE IF dtype = "pybool" THEN v = PyNone
    ELSE IF dtype \in {"float64", "Int64"} THEN v.kind = "nan"
    ELSE FALSE

run_quality_checks(t, stage) ==
    [stage |-> stage,
     row_count |-> Len(t.rows),
     column_count |-> Len(t.columns),
     duplicate_rows |-> duplicate_rows(t),
     missingness |-> {c \in Range(t.columns) :
                         \E i \in DOMAIN t.rows : IsMissing(t.rows[i][c], t.dtypes[c])}]

(***************************************************************************)
(* DataFrame.to_csv(index=False): every value as the text the file holds.   *)
(***************************************************************************)
CsvCell(v, dtype) ==
    IF IsMissing(v, dtype) THEN ""
    ELSE IF dtype \in {"text", "pybool"} THEN v
    ELSE IF dtype = "float64" THEN FloatRepr(v.v)
    ELSE IF dtype = "Int64" THEN IntRepr(10 * v.v)
    ELSE IF dtype = "int64" THEN IntRepr(10 * v)
    ELSE IF v THEN "True" ELSE "False"

to_csv(t) ==
    [exists |-> TRUE,
     columns |-> t.columns,
     rows |-> [i \in DOMAIN t.rows |->
                  [c \in Range(t.columns) |-> CsvCell(t.rows[i][c], t.dtypes[c])]]]

\* what generate_data_dictionary writes that depends on the table
data_dictionary(t) ==
    [exists |-> TRUE, rows |-> Len(t.rows), columns |-> t.columns]

\* what generate_etl_report writes that depends on the run
etl_report(t, chk) ==
    [exists |-> TRUE,
     before |-> chk.before,
     after |-> chk.after,
     included |-> Cardinality({i \in DOMAIN t.rows : t.rows[i]["include_in_analysis"]})]

NoChecks == [stage |-> "none", row_count |-> 0, column_count |-> 0,
             duplicate_rows |-> 0, missingness |-> {}]

\* run_eda.py has not been started: no table, no result, no random draw, no
\* output file
NoEda ==
    [pc |-> "not started", df |-> << >>, error |-> NoError, results |-> << >>,
     draws |-> << >>,
     written |-> [results |-> Absent, figures |-> Absent, scatter |-> Absent,
                  summary |-> Absent]]

NoSample == [col |-> "", fn |-> "none", val |-> "", variant |-> "", out |-> << >>, vout |-> << >>]

(***************************************************************************)
(* The raw survey exports the model runs on: tables of 1..MaxRows rows      *)
(* drawn from a catalogue of respondents, exports with a column missing or  *)
(* added, and no export at all.  Cells are the texts of the CSV file.       *)
(***************************************************************************)
AgeTexts ==
    << "22", "17", "abc", "-5", "999", "17.5", "45", "25", "34", "inf" >>
GenderTexts ==
    << "Female", " MALE", "nonbinary ", "xyz", "", "Trans Woman", "Other",
       "Unsure", "Prefer not to say", "f" >>
UsesTexts ==
    << "Yes", "No", "yes ", "", "maybe", "1", "Yes", "Yes", "No", "Yes" >>
PlatformTexts ==
    << "Instagram, YouTube", "",
       "Facebook, Twitter, Instagram, YouTube, Snapchat, Discord, Reddit, Pinterest, TikTok",
       "facebook", "LinkedIn", "TIKTOK; reddit", "YouTube", "Instagram",
       "Twitter", "Discord, Pinterest" >>
TimeBandTexts ==
    << "Between 2 and 3 hours", "Less than an Hour", "More than 5 hours",
       "About 10 hours", "", "Between 1 and 2 hours", "Between 3 and 4 hours",
       "Between 4 and 5 hours", "Between 2 and 3 hours", "between 2 and 3 hours" >>
AffiliationTexts ==
    << "University", "", "N/A", "School, Company", "Goverment", "Private",
       "Company", "University", "NA", "Government" >>
LikertBase == << "3", "1", "5", "3", "4", "2", "3", "3", "3", "3" >>

\* the Likert cells of a catalogue row that differ from its base answer
LikertOverrides ==
    << << >>,
       << >>,
       << >>,
       << <<"worries_bother", "">>, <<"seek_validation", "often">> >>,
       << >>,
       << >>,
       << <<"sleep_issues", "6">> >>,
       << <<"restless_without_sm", "0">>, <<"worries_bother", "5.5">> >>,
       << <<"distracted_when_busy", "2.5">> >>,
       << >> >>

Catalogue == DOMAIN AgeTexts

LikertText(r, col) ==
    IF \E k \in DOMAIN LikertOverrides[r] : LikertOverrides[r][k][1] = col
    THEN LikertOverrides[r][CHOOSE k \in DOMAIN LikertOverrides[r] :
                                LikertOverrides[r][k][1] = col][2]
    ELSE LikertBase[r]

RawRow(r) ==
    [h \in ExpectedRaw |->
        LET c == RenameOf(h)
        IN  IF c = "timestamp" THEN "4/18/2022 19:18:47"
            ELSE IF c = "age" THEN AgeTexts[r]
            ELSE IF c = "gender_raw" THEN GenderTexts[r]
            ELSE IF c = "relationship_status" THEN "Single"
            ELSE IF c = "occupation_status" THEN "University Student"
            ELSE IF c = "org_affiliations_raw" THEN AffiliationTexts[r]
            ELSE IF c = "uses_social_media" THEN UsesTexts[r]
            ELSE IF c = "platforms_raw" THEN PlatformTexts[r]
            ELSE IF c = "daily_time_band" THEN TimeBandTexts[r]
            ELSE LikertText(r, c)]

RawHeader == [i \in DOMAIN COLUMN_MAPPING |-> COLUMN_MAPPING[i][1]]

RawTable(rs) ==
    [exists |-> TRUE, columns |-> RawHeader,
     rows |-> [i \in DOMAIN rs |-> RawRow(rs[i])]]

\* the export without column h
WithoutColumn(file, h) ==
    LET cols == SeqFilter(file.columns, Range(file.columns) \ {h})
    IN  [exists |-> TRUE, columns |-> cols,
         rows |-> [i \in DOMAIN file.rows |-> [c \in Range(cols) |-> file.rows[i][c]]]]

\* the export with one more column, h, holding text in every row
WithExtraColumn(file, h, text) ==
    LET cols == Append(file.columns, h)
    IN  [exists |-> TRUE, columns |-> cols,
         rows |-> [i \in DOMAIN file.rows |->
                     [c \in Range(cols) |-> IF c = h THEN text ELSE file.rows[i][c]]]]

\* the export with the cell of column h in row i replaced
WithCell(file, i, h, text) ==
    [file EXCEPT !.rows[i][h] = text]

DriftColumns == {"Timestamp", "2. Gender", "18. How often do you feel depressed or down?"}

FullTables ==
    {RawTable(rs) : rs \in UNION {[1..n -> Catalogue] : n \in 1..MaxRows}}

DriftTables ==
    {WithoutColumn(RawTable(<<r>>), h) : r \in {1, 7}, h \in DriftColumns}
    \cup {WithExtraColumn(RawTable(<<r>>), "Comments", "none so far") : r \in {1, 2, 7}}
    \cup {WithExtraColumn(WithoutColumn(RawTable(<<1>>), h), "Comments", "none so far") :
            h \in DriftColumns}
    \cup {WithExtraColumn(WithExtraColumn(RawTable(<<r>>), "Notes", "late"),
                          "Comments", "none so far") : r \in {1, 2}}

RawFiles == {Absent} \cup FullTables \cup DriftTables

NoFiles == [processed |-> Absent, dictionary |-> Absent, report |-> Absent]

(***************************************************************************)
(* run_etl, one action per function it calls.                               *)
(***************************************************************************)
Fail(e) ==
    /\ pc' = "failed"
    /\ error' = e
    /\ df' = NoTable
    /\ checks' = [before |-> NoChecks, after |-> NoChecks]

Step(next, t) ==
    /\ pc' = next
    /\ df' = t
    /\ UNCHANGED error

QualityLines(chk, stage) ==
    <<"Running quality checks (" \o stage \o ")">>
    \o (IF chk.duplicate_rows > 0 THEN <<"  WARNING: duplicate rows found!">> ELSE << >>)

LoadRawData ==
    /\ pc = "idle"
    /\ IF ~rawFile.exists
       THEN /\ Fail(Raise("FileNotFoundError", "Raw data file not found", ""))
            /\ log' = <<"Loading raw data">>
       ELSE \E t \in {ReadCsv(rawFile)} : \E chk \in {run_quality_checks(t, "raw")} :
                /\ Step("rename_columns", t)
                /\ checks' = [before |-> chk, after |-> NoChecks]
                /\ log' = <<"Loading raw data", "  Loaded">> \o QualityLines(chk, "raw")
    /\ UNCHANGED <<rawFile, files, sample, eda>>

RenameColumns ==
    /\ pc = "rename_columns"
    /\ IF missing_cols(df) # {}
       THEN /\ Fail(Raise("ValueError", "Missing expected columns", ""))
            /\ log' = Append(log, "Renaming columns...")
       ELSE /\ Step("drop_timestamp", rename_columns(df))
            /\ log' = log \o <<"Renaming columns...", "  Renamed">>
            /\ UNCHANGED checks
    /\ UNCHANGED <<rawFile, files, sample, eda>>

DropTimestamp ==
    /\ pc = "drop_timestamp"
    /\ Step("clean_age", drop_timestamp(df))
    /\ log' = log \o <<"Dropping timestamp column (privacy)...">>
                  \o (IF "timestamp" \in Range(df.columns)
                      THEN <<"  Dropped timestamp column">> ELSE << >>)
    /\ UNCHANGED <<rawFile, files, sample, eda, checks>>

CleanAge ==
    /\ pc = "clean_age"
    /\ IF clean_age_fails(df)
       THEN /\ Fail(Raise("OverflowError", "cannot convert float infinity to integer", "age"))
            /\ log' = Append(log, "Processing age...")
       ELSE /\ Step("clean_gender", clean_age(df))
            /\ log' = log \o <<"Processing age...", "  Age range", "  Age bands">>
            /\ UNCHANGED checks
    /\ UNCHANGED <<rawFile, files, sample, eda>>

CleanGender ==
    /\ pc = "clean_gender"
    /\ Step("clean_yes_no", clean_gender(df))
    /\ log' = log \o <<"Processing gender...", "  Gender clean distribution",
                       "  Gender grouped distribution">>
    /\ UNCHANGED <<rawFile, files, sample, eda, checks>>

CleanYesNo ==
    /\ pc = "clean_yes_no"
    /\ Step("parse_platforms", clean_yes_no(df))
    /\ log' = log \o <<"Converting Yes/No to boolean...", "  uses_social_media">>
    /\ UNCHANGED <<rawFile, files, sample, eda, checks>>

ParsePlatforms ==
    /\ pc = "parse_platforms"
    /\ Step("parse_affiliations", parse_platforms(df))
    /\ log' = log \o <<"Parsing platform flags...", "  Platform usage counts:">>
    /\ UNCHANGED <<rawFile, files, sample, eda, checks>>

ParseAffiliations ==
    /\ pc = "parse_affiliations"
    /\ Step("create_time_midpoint", parse_affiliations(df))
    /\ log' = log \o <<"Parsing affiliation flags...", "  Affiliation counts:">>
    /\ UNCHANGED <<rawFile, files, sample, eda, checks>>

CreateTimeMidpoint ==
    /\ pc = "create_time_midpoint"
    /\ \E t \in {create_time_midpoint(df)} :
           /\ Step("validate_likert_scales", t)
           /\ log' = log \o <<"Creating daily_hours_midpoint...">>
                         \o (IF unmapped(t) # {}
                             THEN <<"  WARNING: Unmapped time bands">> ELSE << >>)
                         \o <<"  Time band distribution">>
    /\ UNCHANGED <<rawFile, files, sample, eda, checks>>

\* (mutant) the cleaned table is saved before the Likert columns are validated
ValidateLikertScalesAfterSave ==
    /\ pc = "validate_likert_scales"
    /\ files' = [files EXCEPT !.processed = to_csv(df)]
    /\ \E r \in {validate_likert_scales(df)} :
          /\ log' = log \o <<"Saving processed data", "  Saved",
                              "Validating Likert scale columns...">>
                        \o [k \in DOMAIN r.validated |-> "  " \o r.validated[k] \o ": range"]
          /\ IF r.err.kind # "none"
             THEN Fail(r.err)
             ELSE Step("create_analysis_flag", r.df) /\ UNCHANGED checks
    /\ UNCHANGED <<rawFile, sample, eda>>

ValidateLikertScales ==
    /\ pc = "validate_likert_scales"
    /\ \E r \in {validate_likert_scales(df)} :
          /\ log' = log \o <<"Validating Likert scale columns...">>
                        \o [k \in DOMAIN r.validated |-> "  " \o r.validated[k] \o ": range"]
          /\ IF r.err.kind # "none"
             THEN Fail(r.err)
             ELSE Step("create_analysis_flag", r.df) /\ UNCHANGED checks
    /\ UNCHANGED <<rawFile, files, sample, eda>>

CreateAnalysisFlag ==
    /\ pc = "create_analysis_flag"
    /\ Step("reorder_columns", create_analysis_flag(df))
    /\ log' = log \o <<"Creating include_in_analysis flag...", "  Included in analysis",
                       "  Excluded from analysis">>
    /\ UNCHANGED <<rawFile, files, sample, eda, checks>>

\* reorder_columns, then the final run_quality_checks
ReorderColumns ==
    /\ pc = "reorder_columns"
    /\ \E t \in {reorder_columns(df)} : \E chk \in {run_quality_checks(t, "processed")} :
           /\ Step("save_processed_data", t)
           /\ checks' = [checks EXCEPT !.after = chk]
           /\ log' = log \o <<"Reordering columns...">>
                         \o (IF Range(t.columns) \ Range(ordered_cols) # {}
                             THEN <<"  Adding remaining columns">> ELSE << >>)
                         \o QualityLines(chk, "processed")
    /\ UNCHANGED <<rawFile, files, sample, eda>>

SaveProcessedData ==
    /\ pc = "save_processed_data"
    /\ files' = [files EXCEPT !.processed = to_csv(df)]
    /\ pc' = "generate_data_dictionary"
    /\ log' = log \o <<"Saving processed data", "  Saved">>
    /\ UNCHANGED <<rawFile, df, error, checks, sample, eda>>

GenerateDataDictionary ==
    /\ pc = "generate_data_dictionary"
    /\ files' = [files EXCEPT !.dictionary = data_dictionary(df)]
    /\ pc' = "generate_etl_report"
    /\ log' = log \o <<"Generating data dictionary", "  Generated data dictionary">>
    /\ UNCHANGED <<rawFile, df, error, checks, sample, eda>>

GenerateEtlReport ==
    /\ pc = "generate_etl_report"
    /\ files' = [files EXCEPT !.report = etl_report(df, checks)]
    /\ pc' = "done"
    /\ log' = log \o <<"Generating ETL report", "  Generated ETL report", "ETL COMPLETE">>
    /\ UNCHANGED <<rawFile, df, error, checks, sample, eda>>

(***************************************************************************)
(* Between two runs: the command is started again, and before it loads the  *)
(* export the environment may have removed it, edited a cell of it or lost  *)
(* a column of it.                                                          *)
(***************************************************************************)
Finished == pc \in {"done", "failed"}

Rerun ==
    /\ Finished
    /\ pc' = "idle"
    /\ df' = NoTable
    /\ error' = NoError
    /\ log' = << >>
    /\ checks' = [before |-> NoChecks, after |-> NoChecks]
    /\ UNCHANGED <<rawFile, files, sample, eda>>

SleepHeader == "20. On a scale of 1 to 5, how often do you face issues regarding sleep?"

EnvRemoveRaw ==
    /\ pc = "idle"
    /\ files.processed.exists
    /\ rawFile.exists
    /\ rawFile' = Absent
    /\ UNCHANGED <<df, pc, error, log, checks, files, sample, eda>>

EnvEditCell ==
    /\ pc = "idle"
    /\ files.processed.exists
    /\ rawFile.exists
    /\ SleepHeader \in Range(rawFile.columns)
    /\ rawFile.rows[1][SleepHeader] # "7"
    /\ rawFile' = WithCell(rawFile, 1, SleepHeader, "7")
    /\ UNCHANGED <<df, pc, error, log, checks, files, sample, eda>>

EnvDropColumn ==
    /\ pc = "idle"
    /\ files.processed.exists
    /\ rawFile.exists
    /\ "Timestamp" \in Range(rawFile.columns)
    /\ rawFile' = WithoutColumn(rawFile, "Timestamp")
    /\ UNCHANGED <<df, pc, error, log, checks, files, sample, eda>>

Init ==
    /\ rawFile \in RawFiles
    /\ df = NoTable
    /\ pc = "idle"
    /\ error = NoError
    /\ log = << >>
    /\ checks = [before |-> NoChecks, after |-> NoChecks]
    /\ files = NoFiles
    /\ sample = NoSample
    /\ eda = NoEda

Next ==
    \/ LoadRawData
    \/ RenameColumns
    \/ DropTimestamp
    \/ CleanAge
    \/ CleanGender
    \/ CleanYesNo
    \/ ParsePlatforms
    \/ ParseAffiliations
    \/ CreateTimeMidpoint
    \/ ValidateLikertScales
    \/ CreateAnalysisFlag
    \/ ReorderColumns
    \/ SaveProcessedData
    \/ GenerateDataDictionary
    \/ GenerateEtlReport
    \/ Rerun
    \/ EnvRemoveRaw
    \/ EnvEditCell
    \/ EnvDropColumn

Spec == Init /\ [][Next]_vars

(***************************************************************************)
(* The per-value functions on their own: a value of one raw column, a       *)
(* variant of it that differs in letter case and surrounding whitespace     *)
(* only, and the function of that column applied to both, then applied      *)
(* again to its own result.                                                 *)
(***************************************************************************)
UpperOf == [c \in {LowerOf[u] : u \in UpperChars} |->
              CHOOSE u \in UpperChars : LowerOf[u] = c]

\* the character with its letter case swapped
SwapCaseChar(c) ==
    IF c \in UpperChars THEN LowerOf[c]
    ELSE IF c \in DOMAIN UpperOf THEN UpperOf[c] ELSE c

\* s with the case of its k-th character swapped
SwapCaseAt(s, k) ==
    SubSeq(s, 1, k - 1) \o SwapCaseChar(CharAt(s, k)) \o SubSeq(s, k + 1, Len(s))

RECURSIVE PyUpper(_)
PyUpper(s) ==
    IF Len(s) = 0 THEN ""
    ELSE (IF CharAt(s, 1) \in DOMAIN UpperOf THEN UpperOf[CharAt(s, 1)] ELSE CharAt(s, 1))
         \o PyUpper(SubSeq(s, 2, Len(s)))

CaseSpaceVariants(s) ==
    IF IsNa(s) THEN {s}
    ELSE {s, PyUpper(s), PyLower(s), " " \o s, s \o " ", "\t" \o s \o " \n"}
         \cup {SwapCaseAt(s, k) : k \in 1..Len(s)}

GenderCategories ==
    {"Male", "Female", "Non-binary", "Trans", "Unsure", "Prefer not to say", "Other"}

GenderSamples ==
    DOMAIN GENDER_NORMALISATION \cup GenderCategories
    \cup {NaN, "", "xyz", "non  binary", "male female", "fe male", "N/A", "mal"}

AgeSamples ==
    {NatToStr(n) : n \in 0..MaxAge}
    \cup {NaN, "abc", "-5", "-0.5", "999", "17.5", "17.9", "24.6", "44.9", "twenty"}

AffiliationSamples ==
    {NaN, "", " ", "University", "School, Company", "Goverment", "Private",
     "Government", "none", "n/a ", "Banana"}

SampleOf(col, val, variant) ==
    [col |-> col, fn |-> "none", val |-> val, variant |-> variant,
     out |-> << >>, vout |-> << >>]

\* df["gender_raw"].apply(normalise_gender) on the value and on its variant
ApplyNormaliseGender ==
    /\ sample.col = "gender_raw"
    /\ sample.fn = "none"
    /\ sample' = [sample EXCEPT !.fn = "normalise_gender",
                                !.out = <<normalise_gender(sample.val)>>,
                                !.vout = <<normalise_gender(sample.variant)>>]
    /\ UNCHANGED <<etlVars, eda>>

\* normalise_gender on its own result
ReapplyNormaliseGender ==
    /\ sample.fn = "normalise_gender"
    /\ Len(sample.out) = 1
    /\ sample' = [sample EXCEPT !.out = Append(@, normalise_gender(@[1]))]
    /\ UNCHANGED <<etlVars, eda>>

\* pd.to_numeric, then df["age"].apply(get_age_band), on the value
ApplyGetAgeBand ==
    /\ sample.col = "age"
    /\ sample.fn = "none"
    /\ ToNumeric(sample.val).kind # "inf"
    /\ sample' = [sample EXCEPT !.fn = "get_age_band",
                                !.out = <<get_age_band(ToNumeric(sample.val))>>]
    /\ UNCHANGED <<etlVars, eda>>

\* df["org_affiliations_raw"].apply(has_affiliation), once per bucket of
\* AFFILIATIONS, on the value
ApplyHasAffiliation ==
    /\ sample.col = "org_affiliations_raw"
    /\ sample.fn = "none"
    /\ sample' = [sample EXCEPT !.fn = "has_affiliation",
                                !.out = [k \in DOMAIN AFFILIATIONS |->
                                            has_affiliation(sample.val, AFFILIATIONS[k][2])]]
    /\ UNCHANGED <<etlVars, eda>>

(***************************************************************************)
(* The cleaned tables the Analyzer is started on: what run_etl writes for   *)
(* an export of up to MaxEdaRows respondents, each of one of these kinds.   *)
(***************************************************************************)
MaxEdaRows == 3

\* a catalogue row and the answers of it that are replaced
EdaKinds ==
    << << 1, << >> >>,
       << 3, << >> >>,
       << 2, << >> >>,
       << 1, << <<"daily_time_band", "About 10 hours">>, <<"low_mood_freq", "">> >> >>,
       << 1, << <<"daily_time_band", "More than 5 hours">>, <<"low_mood_freq", "4">>,
                <<"purposeless_use", "2">>, <<"sleep_issues", "1">> >> >>,
       << 1, << <<"daily_time_band", "Less than an Hour">> >> >>,
       << 1, << <<"daily_time_band", "About 10 hours">>, <<"low_mood_freq", "2">> >> >> >>

EdaRawRow(k) ==
    [h \in ExpectedRaw |->
        LET c == RenameOf(h)
            o == EdaKinds[k][2]
        IN  IF \E j \in DOMAIN o : o[j][1] = c
            THEN o[CHOOSE j \in DOMAIN o : o[j][1] = c][2]
            ELSE RawRow(EdaKinds[k][1])[h]]

\* the exports of up to MaxEdaRows respondents, the kinds in their order
EdaRawTables ==
    {[exists |-> TRUE, columns |-> RawHeader, rows |-> [i \in DOMAIN ks |-> EdaRawRow(ks[i])]] :
        ks \in {q \in UNION {[1..n -> DOMAIN EdaKinds] : n \in 1..MaxEdaRows} :
                  \A i, j \in DOMAIN q : i < j => q[i] <= q[j]}}

\* the table run_etl saves for the export raw: a set with that table, empty
\* when a step raises
etl_tables(raw) ==
    {reorder_columns(flagged) : flagged \in
      {create_analysis_flag(checked.df) : checked \in
        {r \in {validate_likert_scales(timed) : timed \in
          {create_time_midpoint(affiliated) : affiliated \in
            {parse_affiliations(counted) : counted \in
              {parse_platforms(answered) : answered \in
                {clean_yes_no(gendered) : gendered \in
                  {clean_gender(aged) : aged \in
                    {clean_age(dropped) : dropped \in
                      {t \in {drop_timestamp(renamed) : renamed \in
                        {rename_columns(loaded) : loaded \in
                          {l \in {ReadCsv(raw)} : missing_cols(l) = {}}}} :
                         ~clean_age_fails(t)}}}}}}}} :
           r.err.kind = "none"}}}

\* the files run_etl leaves for the export raw
etl_files(raw) ==
    CHOOSE f \in
        UNION {IF saved = {} THEN {NoFiles}
               ELSE {[processed |-> to_csv(t),
                      dictionary |-> data_dictionary(t),
                      report |-> etl_report(t, [before |-> b, after |-> a])] :
                         t \in saved,
                         b \in {run_quality_checks(l, "raw") : l \in {ReadCsv(raw)}},
                         a \in {run_quality_checks(t2, "processed") : t2 \in saved}} :
               saved \in {etl_tables(raw)}} : TRUE

(***************************************************************************)
(* run_eda.py, the Analyzer.  It reads the cleaned table the Recoder wrote, *)
(* keeps the rows flagged include_in_analysis, checks the Likert range,     *)
(* runs the five hypothesis tests, and writes hypothesis_results.csv, the   *)
(* figures and eda_summary.md.  A statistic or p-value is kept in           *)
(* thousandths as [kind |-> "milli", v |-> ...], or is NumNaN.              *)
(***************************************************************************)
LIKERT_COLS ==
    << "purposeless_use", "distracted_when_busy", "restless_without_sm",
       "easily_distracted", "worries_bother", "difficulty_concentrating",
       "compare_to_successful", "comparison_feelings", "seek_validation",
       "low_mood_freq", "interest_fluctuation", "sleep_issues" >>

PLATFORM_COLS ==
    << "platform_facebook", "platform_twitter", "platform_instagram",
       "platform_youtube", "platform_snapchat", "platform_discord",
       "platform_reddit", "platform_pinterest", "platform_tiktok" >>

TIME_BAND_ORDER ==
    << "Less than an Hour", "Between 1 and 2 hours", "Between 2 and 3 hours",
       "Between 3 and 4 hours", "Between 4 and 5 hours", "More than 5 hours" >>

Milli(v) == [kind |-> "milli", v |-> v]

\* rows[keep], the rows whose index is in keep, in their order
SelectRows(rows, keep) ==
    [k \in 1..Cardinality(keep) |->
        rows[CHOOSE i \in keep : Cardinality({j \in keep : j <= i}) = k]]

\* (mutant) every row of the cleaned table is analysed
included_rows_unfiltered(file) == file.rows

\* df_full[df_full["include_in_analysis"] == True]
included_rows(file) ==
    SelectRows(file.rows,
               {i \in DOMAIN file.rows : file.rows[i]["include_in_analysis"] = "True"})

\* pd.Categorical(..., categories=TIME_BAND_ORDER): another label is NaN
time_band_category(row) ==
    IF row["daily_time_band"] \in Range(TIME_BAND_ORDER) THEN row["daily_time_band"]
    ELSE NaN

\* the cell of a numeric column as read_csv loads it
NumericCell(row, col) == ToNumeric(ReadCell(row[col]))

\* the first column of LIKERT_COLS whose assert fails, or 0: min() and max()
\* of a column without a present value are nan, and nan >= 1 is False
likert_assert_failure(rows) ==
    LET bad == {k \in DOMAIN LIKERT_COLS :
                   \/ \A i \in DOMAIN rows : IsNumNa(NumericCell(rows[i], LIKERT_COLS[k]))
                   \/ \E i \in DOMAIN rows :
                         LET x == NumericCell(rows[i], LIKERT_COLS[k])
                         IN  ~IsNumNa(x) /\ (x.v < 10 \/ x.v > 50)}
    IN  IF bad = {} THEN 0 ELSE CHOOSE k \in bad : \A j \in bad : k <= j

\* the rows of df[[v1, v2]].dropna(); the time band is categorical, the
\* other columns are numeric
Present(row, col) ==
    IF col = "daily_time_band" THEN row[col] # NaN
    ELSE ~IsNumNa(NumericCell(row, col))

complete_rows(rows, v1, v2) ==
    {i \in DOMAIN rows : Present(rows[i], v1) /\ Present(rows[i], v2)}

AllSame(rows, data, col) ==
    \A i, j \in data : NumericCell(rows[i], col) = NumericCell(rows[j], col)

\* stats.spearmanr on the complete rows.  Fewer than two rows or a constant
\* column give nan; two rows give rho = +1 or -1 and no p-value; for more
\* rows the value depends on the ranks and is one of two samples here, one
\* on each side of the 0.05 threshold.
spearmanr(rows, v1, v2) ==
    LET data == complete_rows(rows, v1, v2)
    IN  IF Cardinality(data) < 2 \/ AllSame(rows, data, v1) \/ AllSame(rows, data, v2)
        THEN {[rho |-> NumNaN, p |-> NumNaN]}
        ELSE IF Cardinality(data) = 2
        THEN {[rho |-> IF \E i, j \in data :
                              /\ NumericCell(rows[i], v1).v < NumericCell(rows[j], v1).v
                              /\ NumericCell(rows[i], v2).v < NumericCell(rows[j], v2).v
                           THEN Milli(1000) ELSE Milli(0 - 1000),
               p |-> NumNaN]}
        ELSE {[rho |-> Milli(520), p |-> Milli(49)], [rho |-> Milli(0 - 95), p |-> Milli(50)]}

interpret_rho(rho) ==
    IF IsNumNa(rho) THEN "large"
    ELSE IF Abs(rho.v) < 100 THEN "negligible"
    ELSE IF Abs(rho.v) < 300 THEN "small"
    ELSE IF Abs(rho.v) < 500 THEN "moderate"
    ELSE "large"

run_spearman(rows, v1, v2) ==
    {[n |-> Cardinality(complete_rows(rows, v1, v2)),
      statistic |-> o.rho, p_value |-> o.p,
      effect_size_name |-> "Spearman rho", effect_size_value |-> o.rho,
      interpretation |-> interpret_rho(o.rho)] : o \in spearmanr(rows, v1, v2)}

\* the groups run_kruskal hands to stats.kruskal: one per time band that
\* occurs in the complete rows
kruskal_groups(rows, group, outcome) ==
    {rows[i][group] : i \in complete_rows(rows, group, outcome)}

\* stats.kruskal.  With fewer than two groups it raises ValueError; with all
\* values identical it raises or gives nan, by the version of scipy; two
\* single rows give H = 1; otherwise one of two samples.
kruskal(rows, group, outcome) ==
    LET data == complete_rows(rows, group, outcome)
    IN  IF Cardinality(kruskal_groups(rows, group, outcome)) < 2
        THEN {[raised |-> TRUE, h |-> NumNaN, p |-> NumNaN]}
        ELSE IF AllSame(rows, data, outcome)
        THEN {[raised |-> TRUE, h |-> NumNaN, p |-> NumNaN],
              [raised |-> FALSE, h |-> NumNaN, p |-> NumNaN]}
        ELSE IF Cardinality(data) = 2
        THEN {[raised |-> FALSE, h |-> Milli(1000), p |-> Milli(317)]}
        ELSE {[raised |-> FALSE, h |-> Milli(3900), p |-> Milli(49)],
              [raised |-> FALSE, h |-> Milli(3841), p |-> Milli(50)]}

\* h_stat / (n - 1), kept as the pair
epsilon_squared(h_stat, n) ==
    IF IsNumNa(h_stat) THEN NumNaN
    ELSE [kind |-> "ratio", v |-> h_stat.v, den |-> n - 1]

\* (mutant) a value on a boundary gets the lower label
interpret_epsilon_inclusive(eps) ==
    IF IsNumNa(eps) \/ eps.den = 0 THEN "large"
    ELSE IF eps.v <= 10 * eps.den THEN "negligible"
    ELSE IF eps.v <= 60 * eps.den THEN "small"
    ELSE IF eps.v <= 140 * eps.den THEN "moderate"
    ELSE "large"

interpret_epsilon(eps) ==
    IF IsNumNa(eps) \/ eps.den = 0 THEN "large"
    ELSE IF eps.v < 10 * eps.den THEN "negligible"
    ELSE IF eps.v < 60 * eps.den THEN "small"
    ELSE IF eps.v < 140 * eps.den THEN "moderate"
    ELSE "large"

run_kruskal(rows, group, outcome) ==
    {LET n == Cardinality(complete_rows(rows, group, outcome))
         eps == epsilon_squared(o.h, n)
     IN  [raised |-> o.raised, n |-> n, statistic |-> o.h, p_value |-> o.p,
          effect_size_name |-> "epsilon_squared", effect_size_value |-> eps,
          interpretation |-> interpret_epsilon(eps)] : o \in kruskal(rows, group, outcome)}

\* one entry of results
HypothesisResult(id, predictor, outcome, test, r) ==
    [hypothesis_id |-> id, outcome |-> outcome, predictor |-> predictor,
     test_used |-> test, n |-> r.n, statistic |-> r.statistic, p_value |-> r.p_value,
     effect_size_name |-> r.effect_size_name,
     effect_size_value |-> r.effect_size_value, interpretation |-> r.interpretation]

\* (mutant) the threshold itself counts as significant
significant_at_threshold(p_value) == ~IsNumNa(p_value) /\ p_value.v <= 50

\* results_df["p_value"] < 0.05
significant(p_value) == ~IsNumNa(p_value) /\ p_value.v < 50

\* hypothesis_results.csv
results_csv(results) ==
    [exists |-> TRUE,
     rows |-> [k \in DOMAIN results |->
                  [result |-> results[k], significant |-> significant(results[k].p_value)]]]

\* the values of col in the rows where by has the value g, missing dropped
GroupValues(rows, by, g, col) ==
    LET keep == {i \in DOMAIN rows : rows[i][by] = g /\ Present(rows[i], col)}
    IN  [k \in 1..Cardinality(keep) |->
            NumericCell(rows[CHOOSE i \in keep : Cardinality({j \in keep : j <= i}) = k], col)]

SegmentAgeBands == << "<18", "18-24", "25-34", "35-44", "45+" >>

\* the age bands, or the genders, with at least 10 respondents
valid_segments(rows, col, segments) ==
    SeqFilter(segments,
              {g \in Range(segments) : Cardinality({i \in DOMAIN rows : rows[i][col] = g}) >= 10})

\* what is plotted: the platform bars, the time-band bars, the H1 boxes and
\* the two segment plots
figures(rows) ==
    [exists |-> TRUE,
     platform_usage |->
        [k \in DOMAIN PLATFORM_COLS |->
            << Cardinality({i \in DOMAIN rows : rows[i][PLATFORM_COLS[k]] = "1"}), Len(rows) >>],
     time_distribution |->
        [k \in DOMAIN TIME_BAND_ORDER |->
            Cardinality({i \in DOMAIN rows : rows[i]["daily_time_band"] = TIME_BAND_ORDER[k]})],
     h1_low_mood_by_time_band |->
        [k \in DOMAIN TIME_BAND_ORDER |->
            GroupValues(rows, "daily_time_band", TIME_BAND_ORDER[k], "low_mood_freq")],
     segment_mood_by_age |->
        LET valid_ages == valid_segments(rows, "age_band", SegmentAgeBands)
        IN  [k \in DOMAIN valid_ages |->
                << valid_ages[k], GroupValues(rows, "age_band", valid_ages[k], "low_mood_freq") >>],
     segment_mood_by_gender |->
        LET valid_genders == valid_segments(rows, "gender_grouped", << "Male", "Female" >>)
        IN  [k \in DOMAIN valid_genders |->
                << valid_genders[k],
                   GroupValues(rows, "gender_grouped", valid_genders[k], "low_mood_freq") >>]]

\* np.random.uniform(-0.15, 0.15, len(df)): the jitter tried for the two
\* axes, in thousandths
JitterSamples == { <<0 - 150, 149>>, <<149, 0 - 150>> }

\* the points of a scatter plot: the two answers of each row, in
\* thousandths, each moved by the jitter; a missing answer stays missing
scatter_points(rows, x, y, jitter) ==
    [i \in DOMAIN rows |->
        << IF Present(rows[i], x) THEN Milli(NumericCell(rows[i], x).v * 100 + jitter[1])
           ELSE NumNaN,
           IF Present(rows[i], y) THEN Milli(NumericCell(rows[i], y).v * 100 + jitter[2])
           ELSE NumNaN >>]

\* the H2 and H5 scatter plots, titled with the coefficient already computed
scatter_plots(rows, results, jitter) ==
    [exists |-> TRUE,
     h2_purposeless_vs_mood |->
        [title |-> results[2].statistic,
         points |-> scatter_points(rows, "purposeless_use", "low_mood_freq", jitter)],
     h5_restless_vs_sleep |->
        [title |-> results[5].statistic,
         points |-> scatter_points(rows, "restless_without_sm", "sleep_issues", jitter)]]

\* eda_summary.md: the number of users and the table of results, whose last
\* column is computed for H1 and is the text Yes for H2..H5
summary(rows, results) ==
    [exists |-> TRUE,
     n |-> Len(rows),
     table |-> [k \in DOMAIN results |->
                  [id |-> results[k].hypothesis_id,
                   statistic |-> results[k].statistic,
                   interpretation |-> results[k].interpretation,
                   sig |-> IF k = 1
                           THEN (IF significant(results[k].p_value) THEN "Yes" ELSE "No")
                           ELSE "Yes"]]]

(***************************************************************************)
(* run_eda.py, one action per section of the script.                        *)
(***************************************************************************)
EdaFail(e) == eda' = [eda EXCEPT !.pc = "failed", !.error = e]

\* Load data: the cleaned table is read and filtered
LoadCleanData ==
    /\ eda.pc = "not started"
    /\ IF ~files.processed.exists
       THEN EdaFail(Raise("FileNotFoundError", "smmh_clean.csv", ""))
       ELSE eda' = [eda EXCEPT !.pc = "data_quality", !.df = included_rows(files.processed)]
    /\ UNCHANGED <<etlVars, sample>>

\* Data quality: the time band becomes categorical, the Likert range is asserted
DataQuality ==
    /\ eda.pc = "data_quality"
    /\ \E rows \in {[i \in DOMAIN eda.df |->
                       [eda.df[i] EXCEPT !["daily_time_band"] = time_band_category(eda.df[i])]]} :
          IF likert_assert_failure(rows) # 0
          THEN eda' = [eda EXCEPT !.pc = "failed", !.df = rows,
                                  !.error = Raise("AssertionError", "out of range",
                                                  LIKERT_COLS[likert_assert_failure(rows)])]
          ELSE eda' = [eda EXCEPT !.pc = "h1", !.df = rows]
    /\ UNCHANGED <<etlVars, sample>>

\* (mutant) hypothesis_results.csv is opened before the first test runs
RunH1AfterOpeningResults ==
    /\ eda.pc = "h1"
    /\ \E r \in run_kruskal(eda.df, "daily_time_band", "low_mood_freq") :
          IF r.raised
          THEN eda' = [eda EXCEPT !.pc = "failed",
                                  !.error = Raise("ValueError", "stats.kruskal", ""),
                                  !.written.results = results_csv(eda.results)]
          ELSE eda' = [eda EXCEPT !.pc = "h2",
                          !.results = Append(@, HypothesisResult("H1", "daily_time_band",
                                                    "low_mood_freq", "Kruskal-Wallis", r))]
    /\ UNCHANGED <<etlVars, sample>>

RunH1 ==
    /\ eda.pc = "h1"
    /\ \E r \in run_kruskal(eda.df, "daily_time_band", "low_mood_freq") :
          IF r.raised
          THEN EdaFail(Raise("ValueError", "stats.kruskal", ""))
          ELSE eda' = [eda EXCEPT !.pc = "h2",
                          !.results = Append(@, HypothesisResult("H1", "daily_time_band",
                                                    "low_mood_freq", "Kruskal-Wallis", r))]
    /\ UNCHANGED <<etlVars, sample>>

SpearmanStep(id, predictor, outcome, next) ==
    \E r \in run_spearman(eda.df, predictor, outcome) :
        eda' = [eda EXCEPT !.pc = next,
                   !.results = Append(@, HypothesisResult(id, predictor, outcome, "Spearman", r))]

RunH2 ==
    /\ eda.pc = "h2"
    /\ SpearmanStep("H2", "purposeless_use", "low_mood_freq", "h3")
    /\ UNCHANGED <<etlVars, sample>>

RunH3 ==
    /\ eda.pc = "h3"
    /\ SpearmanStep("H3", "compare_to_successful", "low_mood_freq", "h4")
    /\ UNCHANGED <<etlVars, sample>>

RunH4 ==
    /\ eda.pc = "h4"
    /\ SpearmanStep("H4", "seek_validation", "low_mood_freq", "h5")
    /\ UNCHANGED <<etlVars, sample>>

RunH5 ==
    /\ eda.pc = "h5"
    /\ SpearmanStep("H5", "restless_without_sm", "sleep_issues", "save_results")
    /\ UNCHANGED <<etlVars, sample>>

\* (mutant) the jitter is drawn before the results are saved, and moves the
\* coefficient of H2
SaveResultsJittered ==
    /\ eda.pc = "save_results"
    /\ \E jitter \in JitterSamples :
          eda' = [eda EXCEPT
                    !.pc = "figures",
                    !.draws = <<jitter>>,
                    !.results[2].statistic =
                        IF IsNumNa(@) THEN @ ELSE Milli(@.v + jitter[1]),
                    !.written.results = results_csv(eda.results)]
    /\ UNCHANGED <<etlVars, sample>>

SaveResults ==
    /\ eda.pc = "save_results"
    /\ eda' = [eda EXCEPT !.pc = "figures", !.written.results = results_csv(eda.results)]
    /\ UNCHANGED <<etlVars, sample>>

\* the figures; np.random.seed(42) and the uniform draws come with the H2
\* scatter plot, and the H5 scatter plot draws again
GenerateFigures ==
    /\ eda.pc = "figures"
    /\ \E jitter \in JitterSamples :
          eda' = [eda EXCEPT !.pc = "summary",
                             !.draws = Append(@, jitter),
                             !.written.figures = figures(eda.df),
                             !.written.scatter = scatter_plots(eda.df, eda.results, jitter)]
    /\ UNCHANGED <<etlVars, sample>>

WriteSummary ==
    /\ eda.pc = "summary"
    /\ eda' = [eda EXCEPT !.pc = "done", !.written.summary = summary(eda.df, eda.results)]
    /\ UNCHANGED <<etlVars, sample>>

\* no run_etl in progress, its files on disk, run_eda.py not started
InitEda ==
    /\ rawFile \in {Absent} \cup EdaRawTables
    /\ files = IF rawFile.exists THEN etl_files(rawFile) ELSE NoFiles
    /\ df = NoTable
    /\ pc = "idle"
    /\ error = NoError
    /\ log = << >>
    /\ checks = [before |-> NoChecks, after |-> NoChecks]
    /\ sample = NoSample
    /\ eda = NoEda

NextEda ==
    \/ LoadCleanData
    \/ DataQuality
    \/ RunH1
    \/ RunH2
    \/ RunH3
    \/ RunH4
    \/ RunH5
    \/ SaveResults
    \/ GenerateFigures
    \/ WriteSummary

SpecEda == InitEda /\ [][NextEda]_vars

(***************************************************************************)
(* The functions of the Analyzer on their own: a cleaned table and a value  *)
(* of the statistic, and what run_kruskal makes of them.                    *)
(***************************************************************************)
\* the cleaned tables run_etl writes for the exports raws
CleanedTables(raws) == {etl_files(raw).processed : raw \in raws}

\* the values of H tried: zero, nan, and each label boundary of H / (n - 1),
\* with the value just below it, for the n that occur
KruskalSamples ==
    {Milli(k * d - e) : k \in {10, 60, 140}, d \in 1..MaxEdaRows, e \in {0, 1}}
    \cup {Milli(0), NumNaN}

\* run_kruskal on the included rows of the table, stats.kruskal giving the
\* value; with fewer than two groups stats.kruskal raises instead
ApplyKruskalEffect ==
    /\ sample.col = "low_mood_freq by daily_time_band"
    /\ sample.fn = "none"
    /\ \E rows \in {[i \in DOMAIN included_rows(sample.val) |->
                       [included_rows(sample.val)[i] EXCEPT !["daily_time_band"] =
                           time_band_category(included_rows(sample.val)[i])]]} :
          /\ Cardinality(kruskal_groups(rows, "daily_time_band", "low_mood_freq")) >= 2
          /\ \E n \in {Cardinality(complete_rows(rows, "daily_time_band", "low_mood_freq"))} :
             \E eps \in {epsilon_squared(sample.variant, n)} :
                sample' = [sample EXCEPT
                             !.fn = "run_kruskal",
                             !.out = << [n |-> n, statistic |-> sample.variant,
                                         effect_size_name |-> "epsilon_squared",
                                         effect_size_value |-> eps,
                                         interpretation |-> interpret_epsilon(eps)] >>]
    /\ UNCHANGED <<etlVars, eda>>

\* pages/4_Dashboard.py: the filters chosen in the sidebar; a band or group
\* is offered when it occurs in the table
DashboardSelections ==
    [age : {"All", "18-24"}, gender : {"All", "Female"}, time : {"All"}, occupation : {"All"}]

\* pages/4_Dashboard.py on the cleaned table: load_data keeps the included
\* rows, the chosen filters are applied, and the summary metrics of the rows
\* left are shown unless no row is left
DashboardView ==
    /\ sample.col = "dashboard"
    /\ sample.fn = "none"
    /\ \E rows \in {included_rows(sample.val)} :
          /\ sample.variant.age \in {"All"} \cup {rows[i]["age_band"] : i \in DOMAIN rows}
          /\ sample.variant.gender \in {"All"} \cup {rows[i]["gender_grouped"] : i \in DOMAIN rows}
          /\ \E df_filtered \in
                {{i \in DOMAIN rows :
                    /\ sample.variant.age # "All" => rows[i]["age_band"] = sample.variant.age
                    /\ sample.variant.gender # "All" =>
                          rows[i]["gender_grouped"] = sample.variant.gender
                    /\ sample.variant.time # "All" =>
                          rows[i]["daily_time_band"] = sample.variant.time
                    /\ sample.variant.occupation # "All" =>
                          rows[i]["occupation_status"] = sample.variant.occupation}} :
                sample' = [sample EXCEPT
                    !.fn = "dashboard",
                    !.out = << [sample_size |-> Cardinality(df_filtered),
                                warning |-> Cardinality(df_filtered) < 30,
                                metrics |-> Cardinality(df_filtered) # 0,
                                low_mood |-> {<<i, NumericCell(rows[i], "low_mood_freq")>> :
                                                i \in {j \in df_filtered :
                                                        Present(rows[j], "low_mood_freq")}}] >>]
    /\ UNCHANGED <<etlVars, eda>>

InitSample ==
    /\ rawFile = Absent
    /\ df = NoTable
    /\ pc = "idle"
    /\ error = NoError
    /\ log = << >>
    /\ checks = [before |-> NoChecks, after |-> NoChecks]
    /\ files = NoFiles
    /\ eda = NoEda
    /\ \/ sample \in
             {SampleOf("gender_raw", g[1], g[2]) :
                 g \in UNION {{<<v, w>> : w \in CaseSpaceVariants(v)} : v \in GenderSamples}}
             \cup {SampleOf("age", a, a) : a \in AgeSamples}
             \cup {SampleOf("org_affiliations_raw", a, a) : a \in AffiliationSamples}
       \/ sample \in
             {SampleOf("low_mood_freq by daily_time_band", f, h) :
                 f \in CleanedTables(EdaRawTables), h \in KruskalSamples}
       \/ sample \in
             {SampleOf("dashboard", f, sel) : f \in CleanedTables(EdaRawTables), sel \in DashboardSelections}

NextSample ==
    \/ ApplyNormaliseGender
    \/ ReapplyNormaliseGender
    \/ ApplyGetAgeBand
    \/ ApplyHasAffiliation
    \/ ApplyKruskalEffect
    \/ DashboardView

SpecSample == InitSample /\ [][NextSample]_vars

(***************************************************************************)
(* Properties.                                                              *)
(***************************************************************************)
Has(lines, l) == \E k \in DOMAIN lines : lines[k] = l

\* the raw header that COLUMN_MAPPING renames to c
RawHeaderOf(c) == CHOOSE h \in ExpectedRaw : RenameMap[h] = c

\* the raw export holds the input of the table df / of the files just written
RawNumber(i, c) == ToNumeric(ReadCell(rawFile.rows[i][RawHeaderOf(c)]))
RawText(i, c) == ReadCell(rawFile.rows[i][RawHeaderOf(c)])

\* the run in progress has written the cleaned table: files.processed is the
\* output for rawFile
EmittedNow == pc \in {"generate_data_dictionary", "generate_etl_report", "done"}

WriteLines == {"  Saved", "  Generated data dictionary", "  Generated ETL report"}
WroteOutput(lines) == \E k \in DOMAIN lines : lines[k] \in WriteLines

ValidationPassed(lines) ==
    /\ Has(lines, "  Loaded")
    /\ Has(lines, "  Renamed")
    /\ \A k \in DOMAIN LIKERT_COLUMNS : Has(lines, "  " \o LIKERT_COLUMNS[k] \o ": range")

FatalError(e) ==
    \/ e.kind = "FileNotFoundError"
    \/ e.kind = "ValueError" /\ e.what = "Missing expected columns"
    \/ e.kind = "ValueError" /\ e.what \in {"has value below 1", "has value above 5"}

\* C1: an output file changes only in a run whose load, rename and Likert
\* validation of all 12 columns have succeeded, and a run that ends in a fatal
\* error (missing input, missing raw column, Likert value out of range) has
\* written no output file, so the files of an earlier run are as it left them.
C1_OutputsOnlyAfterValidation ==
    [][ /\ files' # files => /\ ValidationPassed(log)
                             /\ error = NoError
                             /\ WroteOutput(log')
        /\ pc' = "failed" /\ FatalError(error') => /\ files' = files
                                                   /\ ~WroteOutput(log') ]_vars

\* C1 witness: a run fails on a Likert value out of range while the three
\* files of an earlier run exist
C1_Witness ==
    /\ pc = "failed"
    /\ error.what = "has value above 5"
    /\ files.processed.exists /\ files.dictionary.exists /\ files.report.exists

LikertTexts == {"1", "2", "3", "4", "5"}

\* C2: every present Likert value of an emitted cleaned table is an integer
\* in 1..5, and it is the raw value itself, not a clamped one; a missing or
\* non-numeric raw value is an empty cell.
C2_LikertInRange ==
    /\ files.processed.exists =>
          \A i \in DOMAIN files.processed.rows : \A k \in DOMAIN LIKERT_COLUMNS :
              files.processed.rows[i][LIKERT_COLUMNS[k]] \in LikertTexts \cup {""}
    /\ EmittedNow =>
          \A i \in DOMAIN files.processed.rows : \A k \in DOMAIN LIKERT_COLUMNS :
              LET x == RawNumber(i, LIKERT_COLUMNS[k])
                  written == files.processed.rows[i][LIKERT_COLUMNS[k]]
              IN  IF x.kind = "nan" THEN written = ""
                  ELSE x.kind = "num" /\ written = IntRepr(x.v)

\* C2 witness: an emitted table with a present value, a missing one and one
\* coerced from text
C2_Witness ==
    /\ EmittedNow
    /\ \E i \in DOMAIN files.processed.rows :
          /\ files.processed.rows[i]["purposeless_use"] = "3"
          /\ files.processed.rows[i]["worries_bother"] = ""
          /\ rawFile.rows[i][RawHeaderOf("seek_validation")] = "often"
          /\ files.processed.rows[i]["seek_validation"] = ""

\* the run in progress has called validate_likert_scales
ValidateRan == Has(log, "Validating Likert scale columns...")

\* some present raw value of Likert column c is below 1 or above 5
RawOutOfRange(c) ==
    \E i \in DOMAIN rawFile.rows :
        LET x == RawNumber(i, c)
        IN  \/ x.kind = "inf"
            \/ x.kind = "num" /\ (x.v < 10 \/ x.v > 50)

\* some present raw value of Likert column c is not a whole number
RawFractional(c) ==
    \E i \in DOMAIN rawFile.rows :
        LET x == RawNumber(i, c) IN x.kind = "num" /\ x.v % 10 # 0

FirstOf(ks) == CHOOSE k \in ks : \A j \in ks : k <= j

\* C3 as stated: validate_likert_scales aborts exactly when some present
\* value of some Likert column is below 1 or above 5, and the error names the
\* first such column in LIKERT_COLUMNS order.
C3_AbortsExactlyOnRange ==
    ValidateRan =>
        LET outside == {k \in DOMAIN LIKERT_COLUMNS : RawOutOfRange(LIKERT_COLUMNS[k])}
        IN  /\ pc = "failed" <=> outside # {}
            /\ pc = "failed" => error.col = LIKERT_COLUMNS[FirstOf(outside)]

\* C3, what validate_likert_scales does: it aborts exactly when some present
\* value of some Likert column is below 1, above 5 or not a whole number; the first
\* such column in LIKERT_COLUMNS order decides the error: the range error
\* naming it when it holds a value below 1 or above 5, else the cast error of
\* astype("Int64"); missing and non-numeric values never abort the run.
C3_AbortsOnRangeOrFraction ==
    ValidateRan =>
        LET offending == {k \in DOMAIN LIKERT_COLUMNS :
                             \/ RawOutOfRange(LIKERT_COLUMNS[k])
                             \/ RawFractional(LIKERT_COLUMNS[k])}
        IN  /\ pc = "failed" <=> offending # {}
            /\ pc = "failed" =>
                  /\ error.col = LIKERT_COLUMNS[FirstOf(offending)]
                  /\ IF RawOutOfRange(LIKERT_COLUMNS[FirstOf(offending)])
                     THEN /\ error.kind = "ValueError"
                          /\ error.what \in {"has value below 1", "has value above 5"}
                     ELSE error.kind = "TypeError"

\* C3 witness: two Likert columns are out of range, the run has aborted and
\* the error names the earlier one, while another row holds missing values
C3_Witness ==
    /\ ValidateRan
    /\ pc = "failed"
    /\ error.kind = "ValueError"
    /\ error.col = "restless_without_sm"
    /\ RawOutOfRange("restless_without_sm")
    /\ RawOutOfRange("worries_bother")

\* C4: rename_columns fails with the schema error exactly when one of the 21
\* expected raw headers is absent, whatever other columns the export has, and
\* then no transform stage has run.
TransformLines ==
    {"Dropping timestamp column (privacy)...", "Processing age...",
     "Processing gender...", "Converting Yes/No to boolean...",
     "Parsing platform flags...", "Parsing affiliation flags...",
     "Creating daily_hours_midpoint...", "Validating Likert scale columns...",
     "Creating include_in_analysis flag...", "Reordering columns..."}

SchemaError == pc = "failed" /\ error.what = "Missing expected columns"

C4_SchemaMismatch ==
    pc \notin {"idle", "rename_columns"} /\ rawFile.exists =>
        /\ SchemaError <=>
              Cardinality(ExpectedRaw \cap Range(rawFile.columns)) < Len(COLUMN_MAPPING)
        /\ SchemaError => /\ error.kind = "ValueError"
                          /\ \A k \in DOMAIN log : log[k] \notin TransformLines
        /\ ExpectedRaw \subseteq Range(rawFile.columns) =>
              pc # "drop_timestamp" \/ Range(df.columns) \ {RenameMap[h] : h \in ExpectedRaw}
                                        = Range(rawFile.columns) \ ExpectedRaw

\* C4 witness: an export with an unexpected column and an expected one
\* missing has failed in rename_columns
C4_Witness ==
    /\ SchemaError
    /\ "Comments" \in Range(rawFile.columns)
    /\ "Timestamp" \notin Range(rawFile.columns)

\* C4 second case reached: an export with an unexpected column passes
C4_ExtraColumnPasses ==
    /\ pc = "done"
    /\ "Comments" \in Range(rawFile.columns)

\* C5: in every row of the cleaned table include_in_analysis is true exactly
\* when uses_social_media is true; a false and a null uses_social_media both
\* give false.
C5_IncludeIffUses ==
    /\ "include_in_analysis" \in Range(df.columns) =>
          \A i \in DOMAIN df.rows :
              /\ df.rows[i]["include_in_analysis"] \in BOOLEAN
              /\ df.rows[i]["include_in_analysis"]
                    <=> df.rows[i]["uses_social_media"] = PyTrue
    /\ files.processed.exists =>
          \A i \in DOMAIN files.processed.rows :
              LET uses == files.processed.rows[i]["uses_social_media"]
                  include == files.processed.rows[i]["include_in_analysis"]
              IN  /\ uses \in {"True", "False", ""}
                  /\ include = (IF uses = "True" THEN "True" ELSE "False")

\* C5 witness: a cleaned table with a null uses_social_media and a true one
C5_Witness ==
    /\ files.processed.exists
    /\ \E i, j \in DOMAIN files.processed.rows :
          /\ files.processed.rows[i]["uses_social_media"] = ""
          /\ files.processed.rows[i]["include_in_analysis"] = "False"
          /\ files.processed.rows[j]["uses_social_media"] = "True"
          /\ files.processed.rows[j]["include_in_analysis"] = "True"

\* C6: in every row platform_count is the number of the 9 platform flags
\* that are 1, each flag being 0 or 1, so it lies in 0..9.
C6_PlatformCount ==
    /\ "platform_count" \in Range(df.columns) =>
          \A i \in DOMAIN df.rows :
              /\ \A k \in DOMAIN platform_cols : df.rows[i][platform_cols[k]] \in {0, 1}
              /\ df.rows[i]["platform_count"] =
                    Cardinality({k \in DOMAIN platform_cols : df.rows[i][platform_cols[k]] = 1})
              /\ df.rows[i]["platform_count"] \in 0..9
    /\ files.processed.exists =>
          \A i \in DOMAIN files.processed.rows :
              /\ \A k \in DOMAIN platform_cols :
                    files.processed.rows[i][platform_cols[k]] \in {"0", "1"}
              /\ files.processed.rows[i]["platform_count"] =
                    NatToStr(Cardinality({k \in DOMAIN platform_cols :
                                 files.processed.rows[i][platform_cols[k]] = "1"}))

\* C6 witness: a cleaned table with a respondent on all 9 platforms and one
\* on none
C6_Witness ==
    /\ files.processed.exists
    /\ \E i, j \in DOMAIN files.processed.rows :
          /\ files.processed.rows[i]["platform_count"] = "9"
          /\ files.processed.rows[j]["platform_count"] = "0"

AgeBands == {"<18", "18-24", "25-34", "35-44", "45+", "Unknown"}

\* the band the cutoffs give a whole age n
BandOfWholeAge(n) ==
    CHOOSE b \in AgeBands :
        /\ b = "<18" <=> n <= 17
        /\ b = "18-24" <=> n \in 18..24
        /\ b = "25-34" <=> n \in 25..34
        /\ b = "35-44" <=> n \in 35..44
        /\ b = "45+" <=> n >= 45

\* C7: get_age_band gives 17 "<18", 18 and 24 "18-24", 25 and 34 "25-34",
\* 35 and 44 "35-44", 45 and above "45+", a missing age "Unknown", and every
\* age exactly one of the 6 labels, the same label for the same age.
C7_AgeBandCutoffs ==
    sample.fn = "get_age_band" =>
        /\ Len(sample.out) = 1
        /\ sample.out[1] \in AgeBands
        /\ sample.out[1] = "Unknown" <=> ToNumeric(sample.val).kind = "nan"
        /\ sample.val = "17" => sample.out[1] = "<18"
        /\ sample.val \in {"18", "24"} => sample.out[1] = "18-24"
        /\ sample.val \in {"25", "34"} => sample.out[1] = "25-34"
        /\ sample.val \in {"35", "44"} => sample.out[1] = "35-44"
        /\ sample.val \in {"45", "46", "50", "999"} => sample.out[1] = "45+"
        /\ \A n \in 0..(MaxAge + 1) :
              sample.val = NatToStr(n) => sample.out[1] = BandOfWholeAge(n)

\* C7 witness: the age 45, on the last cutoff, has been banded
C7_Witness ==
    /\ sample.fn = "get_age_band"
    /\ sample.val = "45"
    /\ sample.out = <<"45+">>

\* an age the claim calls out of range: negative or above 120
RawAgeOutOfRange(i) ==
    LET x == RawNumber(i, "age") IN x.kind = "num" /\ (x.v < 0 \/ x.v > 1200)

AgeCleaned == "age_band" \in Range(df.columns)

C9_NormaliseGenderInsensitive ==
    sample.fn = "normalise_gender" =>
        /\ sample.out[1] \in GenderCategories
        /\ sample.vout[1] = sample.out[1]
        /\ sample.val \in GenderCategories => sample.out[1] = sample.val
        /\ Len(sample.out) = 2 => sample.out[2] = sample.out[1]

\* C9 witness: a category in another spelling has been normalised twice
C9_Witness ==
    /\ sample.fn = "normalise_gender"
    /\ sample.val = "Non-binary"
    /\ sample.variant = "\tNon-binary \n"
    /\ sample.out = <<"Non-binary", "Non-binary">>

GenderGroups == {"Male", "Female", "Non-binary & Other", "Prefer not to say"}

\* the group the claim gives a category
GroupOfCategory(clean) ==
    IF clean \in {"Non-binary", "Trans", "Unsure", "Other"} THEN "Non-binary & Other"
    ELSE clean

\* C10: in every row gender_clean is one of the 7 categories, "Other" for
\* text no spelling matches and "Prefer not to say" for a missing answer, and
\* gender_grouped is one of the 4 groups: Male, Female and Prefer not to say
\* kept, the other four categories collapsed into "Non-binary & Other".
C10_GenderCategories ==
    /\ "gender_clean" \in Range(df.columns) =>
          \A i \in DOMAIN df.rows :
              LET raw == RawText(i, "gender_raw")
                  clean == df.rows[i]["gender_clean"]
              IN  /\ clean \in GenderCategories
                  /\ raw = NaN => clean = "Prefer not to say"
                  /\ raw # NaN /\ PyLower(PyStrip(raw)) \notin DOMAIN GENDER_NORMALISATION
                        => clean = "Other"
                  /\ df.rows[i]["gender_grouped"] \in GenderGroups
                  /\ df.rows[i]["gender_grouped"] = GroupOfCategory(clean)
    /\ files.processed.exists =>
          \A i \in DOMAIN files.processed.rows :
              /\ files.processed.rows[i]["gender_clean"] \in GenderCategories
              /\ files.processed.rows[i]["gender_grouped"] \in GenderGroups
              /\ files.processed.rows[i]["gender_grouped"] =
                    GroupOfCategory(files.processed.rows[i]["gender_clean"])

\* C10 witness: raw "nonbinary " has become Non-binary in the group
\* "Non-binary & Other", next to an unmatched answer
C10_Witness ==
    /\ EmittedNow
    /\ \E i, j \in DOMAIN files.processed.rows :
          /\ RawText(i, "gender_raw") = "nonbinary "
          /\ files.processed.rows[i]["gender_clean"] = "Non-binary"
          /\ files.processed.rows[i]["gender_grouped"] = "Non-binary & Other"
          /\ RawText(j, "gender_raw") = "xyz"
          /\ files.processed.rows[j]["gender_clean"] = "Other"

\* clean_yes_no has replaced uses_social_media in df
YesNoCleaned ==
    /\ "uses_social_media" \in Range(df.columns)
    /\ df.dtypes["uses_social_media"] = "pybool"

TrueWords == {"yes", "y", "true", "1"}
FalseWords == {"no", "n", "false", "0"}

\* the tri-state value the claim gives an answer
TriState(answer) ==
    IF answer = NaN THEN PyNone
    ELSE IF PyLower(PyStrip(answer)) \in TrueWords THEN PyTrue
    ELSE IF PyLower(PyStrip(answer)) \in FalseWords THEN PyFalse
    ELSE PyNone

\* C11 as stated: a raw answer that, trimmed and case-folded, is one of
\* yes/y/true/1 becomes true, one of no/n/false/0 becomes false, and every
\* other answer, a missing one included, becomes null.
C11_TriStateOfRawAnswer ==
    YesNoCleaned =>
        \A i \in DOMAIN df.rows :
            df.rows[i]["uses_social_media"] = TriState(RawText(i, "uses_social_media"))

\* C11, what clean_yes_no does: the tri-state rule holds of str(val), the
\* value as read_csv typed it, and no answer outside the no-words is false;
\* the raw answer "1" or "0" in a numeric column with a missing cell is read
\* as 1.0 or 0.0 and becomes null.
C11_TriStateOfTypedValue ==
    YesNoCleaned =>
        \A i \in DOMAIN df.rows :
            LET raw == RawText(i, "uses_social_media")
                out == df.rows[i]["uses_social_media"]
            IN  /\ out \in {PyTrue, PyFalse, PyNone}
                /\ out = PyFalse => raw # NaN /\ PyLower(PyStrip(raw)) \in FalseWords
                /\ out = PyTrue => raw # NaN /\ PyLower(PyStrip(raw)) \in TrueWords
                /\ out # TriState(raw) =>
                      /\ raw \in {"1", "0"}
                      /\ out = PyNone
                      /\ \E j \in DOMAIN df.rows : RawText(j, "uses_social_media") = NaN

\* C11 case reached: the answer "1" next to a missing answer has become null
C11_NumericAnswerNull ==
    /\ YesNoCleaned
    /\ \E i, j \in DOMAIN df.rows :
          /\ RawText(i, "uses_social_media") = "1"
          /\ df.rows[i]["uses_social_media"] = PyNone
          /\ RawText(j, "uses_social_media") = NaN

\* name occurs in text between some two positions
Occurs(name, text) ==
    \E a \in 0..Len(text) :
        /\ a + Len(name) <= Len(text)
        /\ SubSeq(text, a + 1, a + Len(name)) = name

PlatformsParsed == "platform_count" \in Range(df.columns)

\* C12: the flag of each of the 9 platforms is 1 exactly when the raw
\* multi-select text is present and contains the platform name in any letter
\* case; a missing raw text gives 9 flags 0 and platform_count 0.
C12_PlatformFlags ==
    /\ PlatformsParsed =>
          \A i \in DOMAIN df.rows :
              LET raw == RawText(i, "platforms_raw")
              IN  /\ \A k \in DOMAIN PLATFORMS :
                        df.rows[i]["platform_" \o PyLower(PLATFORMS[k])] = 1
                            <=> raw # NaN /\ Occurs(PyLower(PLATFORMS[k]), PyLower(raw))
                  /\ raw = NaN =>
                        /\ \A k \in DOMAIN PLATFORMS :
                              df.rows[i]["platform_" \o PyLower(PLATFORMS[k])] = 0
                        /\ df.rows[i]["platform_count"] = 0
                  /\ raw = "TIKTOK; reddit" =>
                        {c \in Range(platform_cols) : df.rows[i][c] = 1}
                            = {"platform_tiktok", "platform_reddit"}
                  /\ raw = "LinkedIn" => df.rows[i]["platform_count"] = 0
    /\ EmittedNow =>
          \A i \in DOMAIN files.processed.rows :
              RawText(i, "platforms_raw") = NaN =>
                  /\ \A k \in DOMAIN platform_cols :
                        files.processed.rows[i][platform_cols[k]] = "0"
                  /\ files.processed.rows[i]["platform_count"] = "0"

\* C12 witness: a table with a missing platform text and one naming two
\* platforms in other letter cases has been flagged
C12_Witness ==
    /\ PlatformsParsed
    /\ \E i, j \in DOMAIN df.rows :
          /\ RawText(i, "platforms_raw") = NaN
          /\ df.rows[i]["platform_count"] = 0
          /\ RawText(j, "platforms_raw") = "TIKTOK; reddit"
          /\ df.rows[j]["platform_tiktok"] = 1
          /\ df.rows[j]["platform_reddit"] = 1
          /\ df.rows[j]["platform_count"] = 2

\* the position of a bucket in AFFILIATIONS
BucketOf(key) == CHOOSE k \in DOMAIN AFFILIATIONS : AFFILIATIONS[k][1] = key

\* C13: has_affiliation gives a missing value and the empty string each
\* affil_na = 1 and the flags of university, school, company, private and
\* government 0.
C13_MissingAffiliationIsNa ==
    sample.fn = "has_affiliation" /\ sample.val \in {NaN, ""} =>
        /\ Len(sample.out) = 6
        /\ sample.out[BucketOf("na")] = 1
        /\ \A key \in {"university", "school", "company", "private", "government"} :
              sample.out[BucketOf(key)] = 0

\* C13 witness: the flags of a missing affiliation have been computed
C13_Witness ==
    /\ sample.fn = "has_affiliation"
    /\ sample.val = NaN
    /\ sample.out = <<0, 0, 0, 0, 0, 1>>

\* C13 second input reached: the flags of the empty string
C13_EmptyStringReached ==
    /\ sample.fn = "has_affiliation"
    /\ sample.val = ""
    /\ sample.out = <<0, 0, 0, 0, 0, 1>>

\* the 6 known labels with their midpoints as the cleaned table shows them
KnownMidpoints ==
    { <<"Less than an Hour", "0.5">>, <<"Between 1 and 2 hours", "1.5">>,
      <<"Between 2 and 3 hours", "2.5">>, <<"Between 3 and 4 hours", "3.5">>,
      <<"Between 4 and 5 hours", "4.5">>, <<"More than 5 hours", "5.5">> }

KnownLabels == {m[1] : m \in KnownMidpoints}

MidpointOf(label) == (CHOOSE m \in KnownMidpoints : m[1] = label)[2]

MidpointCreated == "daily_hours_midpoint" \in Range(df.columns)

\* C14: daily_hours_midpoint is defined exactly in the rows whose
\* daily_time_band is one of the 6 known labels, and is then the fixed value
\* of the label; a present label outside them gets an undefined midpoint and
\* a printed warning, and create_time_midpoint never ends the run.
C14_MidpointIffKnownLabel ==
    /\ MidpointCreated =>
          /\ \A i \in DOMAIN df.rows :
                LET raw == RawText(i, "daily_time_band")
                    mid == df.rows[i]["daily_hours_midpoint"]
                IN  IF raw \in KnownLabels
                    THEN mid.kind = "num" /\ FloatRepr(mid.v) = MidpointOf(raw)
                    ELSE mid = NumNaN
          /\ Has(log, "  WARNING: Unmapped time bands")
                <=> \E i \in DOMAIN df.rows :
                       RawText(i, "daily_time_band") \notin KnownLabels \cup {NaN}
    /\ EmittedNow =>
          \A i \in DOMAIN files.processed.rows :
              LET raw == RawText(i, "daily_time_band")
              IN  files.processed.rows[i]["daily_hours_midpoint"] =
                     (IF raw \in KnownLabels THEN MidpointOf(raw) ELSE "")
    /\ Has(log, "Creating daily_hours_midpoint...")
          /\ ~Has(log, "Validating Likert scale columns...")
          => pc = "validate_likert_scales" /\ error = NoError /\ MidpointCreated

\* C14 witness: a run with a known label and an unknown one has gone on
\* past create_time_midpoint with the warning printed, and has finished
C14_Witness ==
    /\ pc = "done"
    /\ Has(log, "  WARNING: Unmapped time bands")
    /\ \E i, j \in DOMAIN files.processed.rows :
          /\ RawText(i, "daily_time_band") = "About 10 hours"
          /\ files.processed.rows[i]["daily_hours_midpoint"] = ""
          /\ RawText(j, "daily_time_band") = "Between 2 and 3 hours"
          /\ files.processed.rows[j]["daily_hours_midpoint"] = "2.5"

RawTextColumns == {"platforms_raw", "org_affiliations_raw"}

NoPrivateColumns(cols) ==
    /\ {"timestamp", "Timestamp", "gender_raw", "2. Gender"} \cap Range(cols) = {}
    /\ RawTextColumns \subseteq Range(cols)

PassedThrough == {"platforms_raw", "org_affiliations_raw", "daily_time_band"}

\* C16: the Recoder never drops, adds or reorders rows: at every step of a
\* run the table has one row per raw row in the raw order, and so has the
\* cleaned table, the rows whose include_in_analysis is false included.
C16_RowsKeptInOrder ==
    /\ pc \notin {"idle", "failed"} => Len(df.rows) = Len(rawFile.rows)
    /\ pc \notin {"idle", "rename_columns", "failed"} =>
          \A i \in DOMAIN df.rows : \A c \in PassedThrough :
              df.rows[i][c] = RawText(i, c)
    /\ EmittedNow =>
          /\ Len(files.processed.rows) = Len(rawFile.rows)
          /\ \A i \in DOMAIN rawFile.rows : \A c \in PassedThrough :
                files.processed.rows[i][c] =
                    (IF RawText(i, c) = NaN THEN "" ELSE RawText(i, c))

\* C16 witness: the cleaned table of a non-user followed by a user has been
\* written with both rows, the non-user first
C16_Witness ==
    /\ EmittedNow
    /\ Len(rawFile.rows) = 2
    /\ Len(files.processed.rows) = 2
    /\ RawText(1, "uses_social_media") = "No"
    /\ files.processed.rows[1]["include_in_analysis"] = "False"
    /\ files.processed.rows[1]["daily_time_band"] = "Less than an Hour"
    /\ files.processed.rows[2]["include_in_analysis"] = "True"
    /\ files.processed.rows[2]["platforms_raw"] = "Instagram, YouTube"

\* the fixed thematic order of the known columns
ThematicOrder ==
    << "age", "age_band", "gender_clean", "gender_grouped",
       "relationship_status", "occupation_status",
       "uses_social_media", "daily_time_band", "daily_hours_midpoint",
       "platform_facebook", "platform_twitter", "platform_instagram",
       "platform_youtube", "platform_snapchat", "platform_discord",
       "platform_reddit", "platform_pinterest", "platform_tiktok", "platform_count",
       "affil_university", "affil_school", "affil_company", "affil_private",
       "affil_government", "affil_na",
       "purposeless_use", "distracted_when_busy", "restless_without_sm",
       "easily_distracted", "worries_bother", "difficulty_concentrating",
       "compare_to_successful", "comparison_feelings", "seek_validation",
       "low_mood_freq", "interest_fluctuation", "sleep_issues",
       "platforms_raw", "org_affiliations_raw", "include_in_analysis" >>

IndexIn(seq, x) == CHOOSE k \in DOMAIN seq : seq[k] = x

\* C17: reorder_columns outputs a permutation of its input columns, the
\* known columns first in the fixed thematic order and the other columns
\* after them in their original relative order; no column is dropped or
\* duplicated, and no cell changes.
C17_ReorderIsPermutation ==
    [][ pc = "reorder_columns" /\ pc' # pc =>
          LET in == df.columns
              out == df'.columns
          IN  /\ pc' = "save_processed_data"
              /\ Len(out) = Len(in)
              /\ Range(out) = Range(in)
              /\ \A a, b \in DOMAIN out : a # b => out[a] # out[b]
              /\ \A a, b \in DOMAIN out : a < b =>
                    IF out[a] \in Range(ThematicOrder)
                    THEN out[b] \in Range(ThematicOrder) =>
                            IndexIn(ThematicOrder, out[a]) < IndexIn(ThematicOrder, out[b])
                    ELSE /\ out[b] \notin Range(ThematicOrder)
                         /\ IndexIn(in, out[a]) < IndexIn(in, out[b])
              /\ \A i \in DOMAIN df.rows : \A c \in Range(in) :
                    df'.rows[i][c] = df.rows[i][c] ]_vars

\* C17 witness: a table with two columns outside the fixed list has been
\* reordered: they follow include_in_analysis in their original order
C17_Witness ==
    /\ pc = "save_processed_data"
    /\ Len(df.columns) = Len(ThematicOrder) + 2
    /\ df.columns[1] = "age"
    /\ df.columns[Len(ThematicOrder)] = "include_in_analysis"
    /\ df.columns[Len(ThematicOrder) + 1] = "Notes"
    /\ df.columns[Len(ThematicOrder) + 2] = "Comments"

(***************************************************************************)
(* The Analyzer.                                                            *)
(***************************************************************************)
\* the five pre-registered hypotheses: id, predictor, outcome, test
Hypotheses ==
    << << "H1", "daily_time_band", "low_mood_freq", "Kruskal-Wallis" >>,
       << "H2", "purposeless_use", "low_mood_freq", "Spearman" >>,
       << "H3", "compare_to_successful", "low_mood_freq", "Spearman" >>,
       << "H4", "seek_validation", "low_mood_freq", "Spearman" >>,
       << "H5", "restless_without_sm", "sleep_issues", "Spearman" >> >>

\* the rows of the cleaned file flagged include_in_analysis
IncludedInFile ==
    {i \in DOMAIN files.processed.rows :
        files.processed.rows[i]["include_in_analysis"] = "True"}

\* the cell of the cleaned file holds a value the test can use
UsableInFile(i, col) ==
    IF col = "daily_time_band" THEN files.processed.rows[i][col] \in KnownLabels
    ELSE files.processed.rows[i][col] \notin NA_VALUES

\* C18: every hypothesis result and figure of the Analyzer is computed only
\* from rows of the cleaned table whose include_in_analysis is true: the
\* table it works on holds exactly those rows, the n of each result counts
\* included rows only, and each plotted bar or box counts included rows only.
C18_OnlyIncludedRows ==
    (eda.pc # "not started" /\ files.processed.exists) =>
        /\ Len(eda.df) = Cardinality(IncludedInFile)
        /\ \A i \in DOMAIN eda.df : eda.df[i]["include_in_analysis"] = "True"
        /\ \A k \in DOMAIN eda.results :
              eda.results[k].n =
                  Cardinality({i \in IncludedInFile :
                                  /\ UsableInFile(i, Hypotheses[k][2])
                                  /\ UsableInFile(i, Hypotheses[k][3])})
        /\ eda.written.figures.exists =>
              /\ \A k \in DOMAIN PLATFORM_COLS :
                    eda.written.figures.platform_usage[k] =
                        << Cardinality({i \in IncludedInFile :
                                           files.processed.rows[i][PLATFORM_COLS[k]] = "1"}),
                           Cardinality(IncludedInFile) >>
              /\ \A k \in DOMAIN TIME_BAND_ORDER :
                    /\ eda.written.figures.time_distribution[k] =
                          Cardinality({i \in IncludedInFile :
                              files.processed.rows[i]["daily_time_band"] = TIME_BAND_ORDER[k]})
                    /\ Len(eda.written.figures.h1_low_mood_by_time_band[k]) =
                          Cardinality({i \in IncludedInFile :
                              /\ files.processed.rows[i]["daily_time_band"] = TIME_BAND_ORDER[k]
                              /\ UsableInFile(i, "low_mood_freq")})

\* C18 witness: a run has finished on a cleaned table that holds an excluded
\* row with a known time band and a mood answer, next to two included rows
C18_Witness ==
    /\ eda.pc = "done"
    /\ Cardinality(IncludedInFile) >= 2
    /\ \E i \in DOMAIN files.processed.rows :
          /\ files.processed.rows[i]["include_in_analysis"] = "False"
          /\ UsableInFile(i, "daily_time_band")
          /\ UsableInFile(i, "low_mood_freq")
    /\ eda.results[1].n = 2

\* C19: a completed Analyzer run has persisted exactly 5 hypothesis results,
\* in the order H1..H5, each with its predictor, outcome and test (H1 by
\* Kruskal-Wallis, H2..H5 by Spearman), and the persisted significance flag
\* of a row is true if and only if its p-value is strictly below 0.05.
C19_FiveResultsInOrder ==
    /\ eda.pc = "done" => eda.written.results.exists
    /\ eda.written.results.exists =>
          /\ Len(eda.written.results.rows) = 5
          /\ \A k \in DOMAIN eda.written.results.rows :
                LET row == eda.written.results.rows[k]
                IN  /\ row.result.hypothesis_id = Hypotheses[k][1]
                    /\ row.result.predictor = Hypotheses[k][2]
                    /\ row.result.outcome = Hypotheses[k][3]
                    /\ row.result.test_used = Hypotheses[k][4]
                    /\ row.significant = (/\ row.result.p_value.kind = "milli"
                                          /\ row.result.p_value.v < 50)

\* C19 witness: a completed run persisted one result with p = 0.049, flagged,
\* one with p = 0.050, not flagged, and one without a p-value, not flagged
C19_Witness ==
    /\ eda.pc = "done"
    /\ \E a, b, c \in DOMAIN eda.written.results.rows :
          /\ eda.written.results.rows[a].result.p_value = Milli(49)
          /\ eda.written.results.rows[a].significant
          /\ eda.written.results.rows[b].result.p_value = Milli(50)
          /\ ~eda.written.results.rows[b].significant
          /\ eda.written.results.rows[c].result.p_value = NumNaN
          /\ ~eda.written.results.rows[c].significant

\* C20: run_kruskal is guarded against fewer than 2 non-empty groups: when
\* the complete rows of the table fall into fewer than two time bands, the
\* run is not aborted by the test; H1 gets an undefined (nan) result and the
\* run goes on.
C20_KruskalGuarded ==
    (/\ eda.pc \notin {"not started", "data_quality", "h1"}
     /\ eda.error.kind \notin {"FileNotFoundError", "AssertionError"}
     /\ Cardinality(kruskal_groups(eda.df, "daily_time_band", "low_mood_freq")) < 2) =>
        /\ eda.pc # "failed"
        /\ eda.results[1].hypothesis_id = "H1"
        /\ IsNumNa(eda.results[1].statistic)

\* C21: for the group-difference test, n is the number of included rows in
\* which the time band is one of the 6 known labels and the outcome is
\* present, the effect size is statistic / (n - 1), and its label is
\* negligible when < 0.01, small when < 0.06, moderate when < 0.14 and large
\* when >= 0.14.
C21_KruskalEffectSize ==
    sample.fn = "run_kruskal" =>
        LET r == sample.out[1]
            h == sample.variant
            n == Cardinality({i \in DOMAIN sample.val.rows :
                                 /\ sample.val.rows[i]["include_in_analysis"] = "True"
                                 /\ sample.val.rows[i]["daily_time_band"] \in KnownLabels
                                 /\ sample.val.rows[i]["low_mood_freq"] \notin NA_VALUES})
        IN  /\ r.n = n
            /\ r.statistic = h
            /\ h.kind = "milli" =>
                  /\ r.effect_size_value.kind = "ratio"
                  /\ r.effect_size_value.v = h.v
                  /\ r.effect_size_value.den = n - 1
                  /\ 100 * h.v < 1000 * (n - 1) => r.interpretation = "negligible"
                  /\ (100 * h.v >= 1000 * (n - 1) /\ 100 * h.v < 6000 * (n - 1)) =>
                        r.interpretation = "small"
                  /\ (100 * h.v >= 6000 * (n - 1) /\ 100 * h.v < 14000 * (n - 1)) =>
                        r.interpretation = "moderate"
                  /\ 100 * h.v >= 14000 * (n - 1) => r.interpretation = "large"

\* C21 witness: the test ran on a table of three included rows, one of them
\* with a time band that is not a known label and a mood answer; n is 2 and
\* an effect size of exactly 0.01 is labelled small
C21_Witness ==
    /\ sample.fn = "run_kruskal"
    /\ Len(sample.val.rows) = 3
    /\ \A i \in DOMAIN sample.val.rows : sample.val.rows[i]["include_in_analysis"] = "True"
    /\ \E i \in DOMAIN sample.val.rows :
          /\ sample.val.rows[i]["daily_time_band"] \notin KnownLabels
          /\ sample.val.rows[i]["low_mood_freq"] \notin NA_VALUES
    /\ sample.out[1].n = 2
    /\ sample.variant = Milli(10)
    /\ sample.out[1].interpretation = "small"

\* C22: every result of run_spearman, also on a constant column or on fewer
\* than 2 complete rows, has a coefficient in [-1, 1], an effect-size value
\* equal to the coefficient, and the label of its absolute value: negligible
\* when < 0.10, small when < 0.30, moderate when < 0.50, and large only when
\* |rho| >= 0.50.
C22_SpearmanLabel ==
    \A k \in DOMAIN eda.results :
        eda.results[k].test_used = "Spearman" =>
            LET r == eda.results[k]
            IN  /\ r.statistic.kind = "milli"
                /\ Abs(r.statistic.v) <= 1000
                /\ r.effect_size_value = r.statistic
                /\ r.interpretation =
                      IF Abs(r.statistic.v) < 100 THEN "negligible"
                      ELSE IF Abs(r.statistic.v) < 300 THEN "small"
                      ELSE IF Abs(r.statistic.v) < 500 THEN "moderate"
                      ELSE "large"

\* C23: segment breakdowns never report a subgroup with fewer than 10
\* members: when the Dashboard shows the metrics of the rows of one age band
\* or one gender group, at least 10 respondents are in the subgroup and
\* contribute to the mean that is shown.
C23_NoSmallSubgroup ==
    (/\ sample.fn = "dashboard"
     /\ sample.variant.age # "All" \/ sample.variant.gender # "All"
     /\ sample.out[1].metrics) =>
        /\ sample.out[1].sample_size >= 10
        /\ Cardinality(sample.out[1].low_mood) >= 10

\* C24: re-running the Analyzer on the same cleaned table yields identical
\* hypothesis results: in every run all 5 results are computed and persisted
\* before the first random draw, and no random value flows into any of
\* them: a step that draws, and every step after a draw, leaves the results
\* and the persisted results as they are.
C24_ResultsBeforeRandomness ==
    [][ (eda.draws # << >> \/ eda'.draws # << >>) =>
          /\ Len(eda.results) = 5
          /\ eda.written.results.exists
          /\ \A k \in DOMAIN eda.results :
                eda.written.results.rows[k].result = eda.results[k]
          /\ eda'.results = eda.results
          /\ eda'.written.results = eda.written.results ]_vars

\* C24 witness: a run has finished; it drew its jitter and the scatter plot
\* holds a moved point, and the persisted H2 result has p = 0.049
C24_Witness ==
    /\ eda.pc = "done"
    /\ eda.draws = << <<0 - 150, 149>> >>
    /\ eda.written.scatter.h2_purposeless_vs_mood.points[1] = << Milli(2850), Milli(3149) >>
    /\ eda.written.results.rows[2].result.p_value = Milli(49)

\* a printed line that is a warning
IsWarning(line) == Len(line) >= 9 /\ SubSeq(line, 1, 9) = "  WARNING"

\* the gender answer of row i of the export is present and matches no key of
\* GENDER_NORMALISATION
UnmatchedGender(i) ==
    /\ RawText(i, "gender_raw") # NaN
    /\ PyLower(PyStrip(RawText(i, "gender_raw"))) \notin DOMAIN GENDER_NORMALISATION

\* the time band of row i of the export is present and is no known label
UnknownTimeBand(i) ==
    /\ RawText(i, "daily_time_band") # NaN
    /\ RawText(i, "daily_time_band") \notin KnownLabels

\* C25: whenever the Recoder routes an unmatched gender text to "Other", or
\* meets an unknown time-band label, the run completes with the fallback
\* value and its output holds an unmapped-category warning for it.
C25_UnmappedCategoryWarned ==
    pc = "done" =>
        /\ (\E i \in DOMAIN rawFile.rows : UnknownTimeBand(i)) =>
              Has(log, "  WARNING: Unmapped time bands")
        /\ (\E i \in DOMAIN rawFile.rows : UnmatchedGender(i)) =>
              \E k \in DOMAIN log :
                  /\ IsWarning(log[k])
                  /\ log[k] \notin {"  WARNING: Unmapped time bands",
                                    "  WARNING: duplicate rows found!"}

\* C25, what the Recoder does: an unknown time-band label is warned about in
\* the printed output and gets no midpoint; an unmatched gender text becomes
\* "Other" and a run prints no warning but those about time bands and
\* duplicate rows.
C25_OnlyTimeBandWarned ==
    /\ \A k \in DOMAIN log :
          IsWarning(log[k]) => log[k] \in {"  WARNING: Unmapped time bands",
                                           "  WARNING: duplicate rows found!"}
    /\ pc = "done" =>
          /\ (\E i \in DOMAIN rawFile.rows : UnknownTimeBand(i)) =>
                Has(log, "  WARNING: Unmapped time bands")
          /\ \A i \in DOMAIN rawFile.rows :
                /\ UnmatchedGender(i) => files.processed.rows[i]["gender_clean"] = "Other"
                /\ UnknownTimeBand(i) => files.processed.rows[i]["daily_hours_midpoint"] = ""

\* a completed run routed an unmatched gender text to "Other"
C25_UnmatchedGenderCompleted ==
    /\ pc = "done"
    /\ \E i \in DOMAIN rawFile.rows :
          UnmatchedGender(i) /\ files.processed.rows[i]["gender_clean"] = "Other"

\* C26: an Analyzer run that aborts on a validation failure, the Likert
\* range check or a hypothesis test that cannot be computed, has written
\* none of its output files: no hypothesis_results.csv, no figure and no
\* eda_summary.md.
C26_AbortWritesNothing ==
    eda.pc = "failed" =>
        /\ eda.error.kind \in {"FileNotFoundError", "AssertionError", "ValueError"}
        /\ ~eda.written.results.exists
        /\ ~eda.written.figures.exists
        /\ ~eda.written.scatter.exists
        /\ ~eda.written.summary.exists

\* C26 witness: a run passed the Likert range check and was aborted by the
\* group-difference test
C26_Witness ==
    /\ eda.pc = "failed"
    /\ eda.error.kind = "ValueError"
    /\ likert_assert_failure(eda.df) = 0
    /\ Len(eda.df) >= 1

\* a run was aborted by the Likert range check
C26_AssertAborted ==
    /\ eda.pc = "failed"
    /\ eda.error.kind = "AssertionError"
    /\ files.processed.exists

\* C27: for a present, non-empty raw affiliation text affil_na is 1 only if
\* the text contains "N/A" or "NA" in any letter case; a text naming only
\* other buckets, such as "University", gets affil_university = 1 and
\* affil_na = 0.
C27_NaOnlyWhenNamed ==
    sample.fn = "has_affiliation" /\ ~IsNa(sample.val) /\ sample.val # "" =>
        /\ sample.out[BucketOf("na")] = 1 =>
              \/ PyContains("n/a", PyLower(sample.val))
              \/ PyContains("na", PyLower(sample.val))
        /\ sample.val = "University" =>
              /\ sample.out[BucketOf("university")] = 1
              /\ sample.out[BucketOf("na")] = 0

\* the flags of the text "University" have been computed: affil_university
\* and affil_na are both 1
C27_UniversityFlaggedNa ==
    /\ sample.fn = "has_affiliation"
    /\ sample.val = "University"
    /\ sample.out[BucketOf("university")] = 1
    /\ sample.out[BucketOf("na")] = 1

\* every present affiliation text is flagged affil_na = 1
C27_EveryPresentTextIsNa ==
    sample.fn = "has_affiliation" /\ ~IsNa(sample.val) =>
        sample.out[BucketOf("na")] = 1

\* the pipeline has finished with a row whose present affiliation text set
\* affil_university and affil_na both to 1
C27_CleanedRowBothFlags ==
    /\ pc = "done"
    /\ \E i \in DOMAIN df.rows :
          /\ ~IsNa(df.rows[i]["org_affiliations_raw"])
          /\ df.rows[i]["affil_university"] = 1
          /\ df.rows[i]["affil_na"] = 1

\* C28: the summary renders the computed results unaltered: for each of
\* H1..H5 the "Sig?" cell of its results table is "Yes" exactly when the
\* significance flag persisted for that hypothesis is true, and "No"
\* otherwise.
C28_SummaryShowsPersistedFlag ==
    eda.written.summary.exists =>
        /\ eda.written.results.exists
        /\ Len(eda.written.summary.table) = 5
        /\ \A k \in DOMAIN eda.written.summary.table :
              /\ eda.written.summary.table[k].id = eda.written.results.rows[k].result.hypothesis_id
              /\ eda.written.summary.table[k].sig =
                    (IF eda.written.results.rows[k].significant THEN "Yes" ELSE "No")

\* the H1 row alone: its "Sig?" cell follows the persisted flag
C28_H1ShowsPersistedFlag ==
    eda.written.summary.exists =>
        eda.written.summary.table[1].sig =
            (IF eda.written.results.rows[1].significant THEN "Yes" ELSE "No")

\* the H1 row shows "No" in one written summary
C28_H1ShownNotSignificant ==
    /\ eda.written.summary.exists
    /\ eda.written.summary.table[1].sig = "No"

\* a written summary shows "Yes" for a correlation whose persisted flag is
\* false
C28_YesForUnflaggedResult ==
    /\ eda.written.summary.exists
    /\ \E k \in 2..5 :
          /\ eda.written.summary.table[k].sig = "Yes"
          /\ ~eda.written.results.rows[k].significant

\* C29: every cleaned table the pipeline writes passes the Likert range check
\* of run_eda.py (min >= 1 and max <= 5 of each Likert column over the
\* included rows), also when a Likert column has no present value among the
\* included rows or no row is included.
C29_EmittedTablePassesLikert ==
    files.processed.exists /\ eda.pc \notin {"not started", "data_quality"} =>
        /\ likert_assert_failure(eda.df) = 0
        /\ eda.error.kind # "AssertionError"

\* the check failed on a written table without an included row
C29_NoIncludedRowFails ==
    /\ files.processed.exists
    /\ Len(files.processed.rows) >= 1
    /\ eda.pc = "failed"
    /\ eda.error.kind = "AssertionError"
    /\ eda.df = << >>

\* the check failed on a written table whose included rows have no present
\* low_mood_freq
C29_EmptyLikertColumnFails ==
    /\ files.processed.exists
    /\ eda.pc = "failed"
    /\ eda.error.kind = "AssertionError"
    /\ Len(eda.df) >= 1
    /\ \A i \in DOMAIN eda.df : ~Present(eda.df[i], "low_mood_freq")

\* the check fails only for want of a present value: every present Likert
\* value of a written table is an integer from 1 to 5
C29_PresentValuesInRange ==
    files.processed.exists /\ eda.pc \notin {"not started", "data_quality"} =>
        \A i \in DOMAIN eda.df : \A k \in DOMAIN LIKERT_COLS :
            Present(eda.df[i], LIKERT_COLS[k]) =>
                NumericCell(eda.df[i], LIKERT_COLS[k]).v \in {10, 20, 30, 40, 50}

\* C30: in every row with a non-missing age the stored integer age and the
\* age_band agree: the cutoffs <18, 18-24, 25-34, 35-44, 45+ applied to the
\* stored rounded age give the row's age_band, also for a fractional raw age
\* such as 17.5 or 24.6.
C30_StoredAgeMatchesBand ==
    AgeCleaned =>
        \A i \in DOMAIN df.rows :
            df.rows[i]["age"] # NumNaN =>
                /\ df.rows[i]["age"].kind = "int"
                /\ df.rows[i]["age_band"] = BandOfWholeAge(df.rows[i]["age"].v)

\* the raw age 17.5 is stored as 18 with the band "<18", and written so
C30_RoundedAcrossCutoff ==
    /\ EmittedNow
    /\ \E i \in DOMAIN files.processed.rows :
          /\ RawText(i, "age") = "17.5"
          /\ files.processed.rows[i]["age"] = "18"
          /\ files.processed.rows[i]["age_band"] = "<18"

\* a raw age that is a whole number is stored with the band of the cutoffs
C30_WholeAgeMatchesBand ==
    AgeCleaned =>
        \A i \in DOMAIN df.rows :
            LET x == RawNumber(i, "age")
            IN  x.kind = "num" /\ x.v % 10 = 0 =>
                    /\ df.rows[i]["age"] = Int64(x.v \div 10)
                    /\ df.rows[i]["age_band"] = BandOfWholeAge(x.v \div 10)

\* get_age_band on a fractional age gives the band of the age truncated
\* toward zero, which the rounded age leaves at 17.5, 17.9, 24.6 and 44.9
C30_BandOfTruncatedAge ==
    sample.fn = "get_age_band" /\ sample.val \in {"17.5", "17.9", "24.6", "44.9"} =>
        LET x == ToNumeric(sample.val)
        IN  /\ sample.out[1] = BandOfWholeAge(PyInt(x.v))
            /\ sample.out[1] # BandOfWholeAge(AgeToInt64(x).v)

====
